---------------------------- MODULE Spec2Model ----------------------------
(***************************************************************************)
(* The transaction categorization and transfer-matching engine of the      *)
(* bank statement analyzer (src/logic.py, process_analysis), as a state    *)
(* machine.  One run of process_analysis is one behaviour: the state holds *)
(* the arguments, the working collections of the function and the position *)
(* of the run; one action per numbered section of the function, the loops  *)
(* of the matching pass and of the cascade taking one step per iteration   *)
(* of their outer loop.                                                    *)
(*                                                                         *)
(* Text is TLA+ strings (a description, a date, an account id), compared   *)
(* and searched character by character as Python does.  Amounts are        *)
(* integers.  A Python dict is a function whose DOMAIN is its keys, so a   *)
(* record that lacks a field lacks it here too.                            *)
(***************************************************************************)
EXTENDS Integers, Sequences, FiniteSets, TLC

(***************************************************************************)
(* CONSTANTS - UNIVERSAL BANKING RULES (src/logic.py lines 11-63).  A dict *)
(* is written as the sequence of its (key, value) pairs, in source order.  *)
(***************************************************************************)
BANK_CODES ==
    << <<"AMFB", "AmBank">>,
       <<"AMB", "AmBank">>,
       <<"AMBANK", "AmBank">>,
       <<"BIMB", "Bank Islam">>,
       <<"BANK ISLAM", "Bank Islam">>,
       <<"MBB", "Maybank">>,
       <<"MAYBANK", "Maybank">>,
       <<"RHB", "RHB Bank">>,
       <<"PBB", "Public Bank">>,
       <<"PUBLIC BANK", "Public Bank">>,
       <<"OCBC", "OCBC Bank">>,
       <<"HSBC", "HSBC Bank">>,
       <<"UOB", "UOB Bank">>,
       <<"AFFIN", "Affin Bank">>,
       <<"BSN", "BSN">>,
       <<"CITI", "Citibank">>,
       <<"SCB", "Standard Chartered">> >>

PROVIDED_BANK_CODES ==
    { "CIMB", "CIMBKL", "CIMB14", "CIMB9", "CIMBSEK", "HLB", "HLBB", "BMMB", "MUAMALAT" }

INTER_ACCOUNT_MARKERS == <<
    "ITB TRF", "ITC TRF", "INTERBANK", "INTER ACC", "OWN ACC", "INTERCO TXN", "INTER-CO",
    "INTRA ACC", "SELF TRF", "TR FROM CA", "TR TO C/A" >>

STATUTORY_KEYWORDS ==
    << <<"EPF/KWSP", <<"KUMPULAN WANG SIMPANAN PEKERJA", "KWSP", "EPF", "EMPLOYEES PROVIDENT">> >>,
       <<"SOCSO/PERKESO", <<"PERTUBUHAN KESELAMATAN SOSIAL", "PERKESO", "SOCSO", "SOCIAL SECURITY">> >>,
       <<"LHDN/Tax", <<"LEMBAGA HASIL DALAM NEGERI", "LHDN", "PCB", "MTD", "CP39", "CP38", "INCOME TAX">> >>,
       <<"HRDF/PSMB", <<"PEMBANGUNAN SUMBER MANUSIA", "HRDF", "PSMB", "HRD CORP">> >> >>

SALARY_KEYWORDS == <<
    "SALARY", "GAJI", "PAYROLL", "WAGES", "ALLOWANCE", "ELAUN", "BONUS", "COMMISSION",
    "INCENTIVE", "EPF EMPLOYER", "STAFF CLAIM", "OVERTIME", "OT CLAIM" >>

UTILITY_KEYWORDS == <<
    "TNB", "TENAGA NASIONAL", "TENAGA", "SYABAS", "AIR SELANGOR", "PENGURUSAN AIR",
    "SAINS", "SAJ", "SAJH", "TELEKOM", "TM NET", "UNIFI", "STREAMYX", "MAXIS", "CELCOM",
    "DIGI", "U MOBILE", "YES", "ASTRO", "TIME DOTCOM", "TIME FIBRE", "IWK", "INDAH WATER" >>

BANK_CHARGE_KEYWORDS == <<
    "SERVICE CHARGE", "BANK CHARGE", "AUTOPAY CHARGES", "FEE", "COMMISSION", "STAMP DUTY",
    "DUTI SETEM", "COT", "HANDLING CHARGE", "PROCESSING FEE", "ADM CHARGE", "ADMIN FEE" >>

DISBURSEMENT_KEYWORDS == <<
    "DISB", "DISBURSEMENT", "LOAN CR", "FINANCING CR", "DRAWDOWN", "FACILITY RELEASE" >>

INTEREST_KEYWORDS == <<
    "PROFIT PAID", "PROFIT/HIBAH", "HIBAH", "INTEREST", "DIVIDEND", "FAEDAH",
    "BONUS INTEREST" >>

REVERSAL_KEYWORDS == <<
    "REVERSAL", "REVERSE", "REV", "CANCELLED", "VOID", "RETURNED", "REJECTED" >>

ROUND_FIGURE_THRESHOLD == 10000

ROUND_FIGURE_WARNING_PCT == 40

(***************************************************************************)
(* The bounds of the model.                                                *)
(***************************************************************************)
\* the transactions of a run of Spec
MaxTxns == 3

\* the last second the clock reaches
MaxClock == 1

\* the calls a caller makes with the same arguments
MaxRuns == 2

(***************************************************************************)
(* Text.  Python compares strings by code point; CHARS lists the           *)
(* characters the model uses in code-point order.                          *)
(***************************************************************************)
CHARS == " &()-/0123456789ABCDEFGHIJKLMNOPQRSTUVWXYZ_abcdefghijklmnopqrstuvwxyz"

UPPERCASE == "ABCDEFGHIJKLMNOPQRSTUVWXYZ"

LOWERCASE == "abcdefghijklmnopqrstuvwxyz"

DIGITS == "0123456789"

CharAt(s, i) == SubSeq(s, i, i)

IndexIn(c, s) == IF \E i \in 1..Len(s) : CharAt(s, i) = c
                 THEN CHOOSE i \in 1..Len(s) : CharAt(s, i) = c
                 ELSE 0

Ord(c) == IndexIn(c, CHARS)

Min(a, b) == IF a <= b THEN a ELSE b

\* max that returns its first argument
Max_First(a, b) == a

Max(a, b) == IF a >= b THEN a ELSE b

Abs(a) == IF a < 0 THEN 0 - a ELSE a

\* a < b for str: the first differing character decides, a proper prefix is smaller
StrLess(a, b) ==
    LET n == Min(Len(a), Len(b))
        diff == {i \in 1..n : CharAt(a, i) # CharAt(b, i)}
    IN  IF diff = {} THEN Len(a) < Len(b)
        ELSE LET i == CHOOSE j \in diff : \A k \in diff : j <= k
             IN  Ord(CharAt(a, i)) < Ord(CharAt(b, i))

\* str.upper()
RECURSIVE Upper(_)
Upper(s) ==
    IF s = "" THEN ""
    ELSE LET c == Head(s)
             i == IndexIn(c, LOWERCASE)
         IN  (IF i = 0 THEN c ELSE CharAt(UPPERCASE, i)) \o Upper(Tail(s))

\* sub in s
Contains(sub, s) ==
    \E i \in 1..(Len(s) - Len(sub) + 1) : SubSeq(s, i, i + Len(sub) - 1) = sub

\* s.find(sub) + 1 where sub in s
Find(sub, s) ==
    CHOOSE i \in 1..(Len(s) - Len(sub) + 1) :
        /\ SubSeq(s, i, i + Len(sub) - 1) = sub
        /\ \A j \in 1..(i - 1) : SubSeq(s, j, j + Len(sub) - 1) # sub

\* s.strip() for blanks
RECURSIVE Strip(_)
Strip(s) ==
    IF s = "" THEN ""
    ELSE IF Head(s) = " " THEN Strip(Tail(s))
    ELSE IF CharAt(s, Len(s)) = " " THEN Strip(SubSeq(s, 1, Len(s) - 1))
    ELSE s

\* s.split(sep): the pieces between the separators, empty pieces included
RECURSIVE SplitOn(_, _)
SplitOn(s, sep) ==
    IF ~Contains(sep, s) THEN <<s>>
    ELSE LET i == Find(sep, s)
         IN  <<SubSeq(s, 1, i - 1)>> \o SplitOn(SubSeq(s, i + 1, Len(s)), sep)

\* s.split(): the words between runs of blanks
Split(s) == SelectSeq(SplitOn(s, " "), LAMBDA w : w # "")

\* ' '.join(words)
RECURSIVE Join(_)
Join(words) ==
    IF words = <<>> THEN ""
    ELSE IF Len(words) = 1 THEN words[1]
    ELSE words[1] \o " " \o Join(Tail(words))

\* any(kw in desc_upper for kw in keywords)
AnyKeyword(keywords, desc_upper) ==
    \E k \in 1..Len(keywords) : Contains(keywords[k], desc_upper)

RECURSIVE SumSeq(_)
SumSeq(s) == IF s = <<>> THEN 0 ELSE Head(s) + SumSeq(Tail(s))

Range(s) == {s[i] : i \in 1..Len(s)}

(***************************************************************************)
(* HELPER FUNCTIONS (src/logic.py lines 69-156)                            *)
(***************************************************************************)

\* dict.get(key, default)
Get(d, key, default) == IF key \in DOMAIN d THEN d[key] ELSE default

\* the key of the sort of line 208; txn is a normalized transaction
create_transaction_key(txn) ==
    LET amount == txn.credit + txn.debit
    IN  <<txn.date, 0 - amount, txn.description>>

\* k1 < k2 for the tuples (str, number, str)
KeyLess(k1, k2) ==
    \/ StrLess(k1[1], k2[1])
    \/ k1[1] = k2[1] /\ k1[2] < k2[2]
    \/ k1[1] = k2[1] /\ k1[2] = k2[2] /\ StrLess(k1[3], k2[3])

has_inter_account_marker(desc) == AnyKeyword(INTER_ACCOUNT_MARKERS, Upper(desc))

has_company_name(desc, company_keywords) ==
    LET desc_upper == Upper(desc)
    IN  \E k \in 1..Len(company_keywords) : Contains(Upper(company_keywords[k]), desc_upper)

\* missing_codes is the set in the order its iteration yields; "" stands for None
get_missing_bank_code(desc, missing_codes) ==
    LET desc_upper == Upper(desc)
        hits == {k \in 1..Len(missing_codes) : Contains(missing_codes[k], desc_upper)}
    IN  IF hits = {} THEN ""
        ELSE missing_codes[CHOOSE k \in hits : \A j \in hits : k <= j]

\* is_round_figure without the test of the multiple of 1000
is_round_figure_AnyLargeAmount(amount) == amount >= ROUND_FIGURE_THRESHOLD

is_round_figure(amount) ==
    amount >= ROUND_FIGURE_THRESHOLD /\ amount % 1000 = 0

\* num/den <= k, for den # 0
RatioLeq(num, den, k) == IF den > 0 THEN num <= k * den ELSE num >= k * den

\* round(num/den, 2) in hundredths, halves to even, for den # 0
Round2(num, den) ==
    LET n == IF den > 0 THEN 100 * num ELSE 0 - 100 * num
        d == Abs(den)
        q == n \div d
        r == n % d
    IN  IF 2 * r < d THEN q
        ELSE IF 2 * r > d THEN q + 1
        ELSE IF q % 2 = 0 THEN q ELSE q + 1

\* calculate_volatility with the sum of high and low for their average
calculate_volatility_SumForAverage(high, low) ==
    IF high = low THEN [vol_pct |-> 0, level |-> "LOW"]
    ELSE IF high + low = 0 THEN [vol_pct |-> 0, level |-> "LOW"]
    ELSE LET num == 100 * (high - low)
             den == high + low
             level == IF RatioLeq(num, den, 50) THEN "LOW"
                      ELSE IF RatioLeq(num, den, 100) THEN "MODERATE"
                      ELSE IF RatioLeq(num, den, 200) THEN "HIGH"
                      ELSE "EXTREME"
         IN  [vol_pct |-> Round2(num, den), level |-> level]

\* vol_pct = swing / avg * 100 = 200 * (high - low) / (high + low); the first
\* component of the result is in hundredths of a percent point
calculate_volatility(high, low) ==
    IF high = low THEN [vol_pct |-> 0, level |-> "LOW"]
    ELSE IF high + low = 0 THEN [vol_pct |-> 0, level |-> "LOW"]
    ELSE LET num == 200 * (high - low)
             den == high + low
             level == IF RatioLeq(num, den, 50) THEN "LOW"
                      ELSE IF RatioLeq(num, den, 100) THEN "MODERATE"
                      ELSE IF RatioLeq(num, den, 200) THEN "HIGH"
                      ELSE "EXTREME"
         IN  [vol_pct |-> Round2(num, den), level |-> level]

get_recurring_status(found_count, expected_count) ==
    IF found_count >= Max(4, expected_count - 2) THEN "FOUND"
    ELSE IF found_count >= 1 THEN "PARTIAL"
    ELSE "NOT_FOUND"

STOP_WORDS ==
    { "SDN", "BHD", "PLT", "BERHAD", "ENTERPRISE", "TRADING",
      "SERVICES", "SOLUTIONS", "HOLDINGS", "GROUP", "AND", "&" }

generate_related_party_patterns(related_parties) ==
    [r \in 1..Len(related_parties) |->
        LET rp == related_parties[r]
            name_upper == Upper(rp.name)
            words == SelectSeq(Split(name_upper), LAMBDA w : w \notin STOP_WORDS /\ Len(w) > 2)
        IN  [name |-> rp.name,
             relationship |-> rp.relationship,
             patterns |-> <<name_upper>>
                          \o (IF Len(words) >= 2 THEN <<Join(SubSeq(words, 1, 2))>> ELSE <<>>)
                          \o (IF Len(words) >= 1 THEN <<words[1]>> ELSE <<>>)]]

PURPOSE_KEYWORDS == <<"STATUTORY", "SALARY", "LOAN", "PAYMENT", "ADVANCE", "INTERBANK">>

\* the purpose note of lines 137-142
PurposeNote(desc_upper) ==
    LET hits == {k \in 1..Len(PURPOSE_KEYWORDS) : Contains(PURPOSE_KEYWORDS[k], desc_upper)}
    IN  IF hits = {} THEN ""
        ELSE LET keyword == PURPOSE_KEYWORDS[CHOOSE k \in hits : \A j \in hits : k <= j]
                 idx == Find(keyword, desc_upper)
             IN  Strip(SubSeq(desc_upper, idx, Min(idx + 29, Len(desc_upper))))

\* <<>> stands for None, <<match>> for a match
check_related_party(desc, rp_patterns) ==
    LET desc_upper == Upper(desc)
        hits == {r \in 1..Len(rp_patterns) :
                    \E p \in 1..Len(rp_patterns[r].patterns) :
                        Contains(rp_patterns[r].patterns[p], desc_upper)}
    IN  IF hits = {} THEN <<>>
        ELSE LET rp == rp_patterns[CHOOSE r \in hits : \A j \in hits : r <= j]
             IN  <<[name |-> rp.name,
                    relationship |-> rp.relationship,
                    purpose_note |-> PurposeNote(desc_upper)]>>

\* "" stands for None
check_statutory(desc) ==
    LET desc_upper == Upper(desc)
        hits == {t \in 1..Len(STATUTORY_KEYWORDS) :
                    AnyKeyword(STATUTORY_KEYWORDS[t][2], desc_upper)}
    IN  IF hits = {} THEN ""
        ELSE STATUTORY_KEYWORDS[CHOOSE t \in hits : \A j \in hits : t <= j][1]

(***************************************************************************)
(* datetime.strptime (lines 261, 262 and 508) and strftime('%B %Y').       *)
(* A parse yields <<>> where strptime raises ValueError, and otherwise     *)
(* <<n>>: n the day number of the date (its proleptic Gregorian ordinal)   *)
(* for '%Y-%m-%d', and <<year, month>> for '%Y-%m'.                        *)
(***************************************************************************)
IsDigits(s) == \A k \in 1..Len(s) : IndexIn(CharAt(s, k), DIGITS) # 0

RECURSIVE ToInt(_)
ToInt(s) ==
    IF s = "" THEN 0
    ELSE 10 * ToInt(SubSeq(s, 1, Len(s) - 1)) + (IndexIn(CharAt(s, Len(s)), DIGITS) - 1)

IsLeap(y) == (y % 4 = 0 /\ y % 100 # 0) \/ y % 400 = 0

DaysInMonth(y, m) ==
    IF m = 2 THEN (IF IsLeap(y) THEN 29 ELSE 28)
    ELSE IF m \in {4, 6, 9, 11} THEN 30 ELSE 31

RECURSIVE DaysBeforeMonth(_, _)
DaysBeforeMonth(y, m) ==
    IF m = 1 THEN 0 ELSE DaysBeforeMonth(y, m - 1) + DaysInMonth(y, m - 1)

ToOrdinal(y, m, d) ==
    LET p == y - 1
    IN  p * 365 + (p \div 4) - (p \div 100) + (p \div 400) + DaysBeforeMonth(y, m) + d

\* %Y is four digits, %m and %d one or two digits in range
YearField(s) == Len(s) = 4 /\ IsDigits(s) /\ ToInt(s) >= 1

MonthField(s) == Len(s) \in {1, 2} /\ IsDigits(s) /\ ToInt(s) \in 1..12

DayField(s) == Len(s) \in {1, 2} /\ IsDigits(s) /\ ToInt(s) \in 1..31

\* datetime.strptime(s, '%Y-%m-%d')
ParseDate(s) ==
    LET parts == SplitOn(s, "-")
    IN  IF Len(parts) # 3 THEN <<>>
        ELSE IF ~(YearField(parts[1]) /\ MonthField(parts[2]) /\ DayField(parts[3])) THEN <<>>
        ELSE LET y == ToInt(parts[1])
                 m == ToInt(parts[2])
                 d == ToInt(parts[3])
             IN  IF d > DaysInMonth(y, m) THEN <<>> ELSE <<ToOrdinal(y, m, d)>>

\* datetime.strptime(s, '%Y-%m')
ParseMonth(s) ==
    LET parts == SplitOn(s, "-")
    IN  IF Len(parts) # 2 THEN <<>>
        ELSE IF ~(YearField(parts[1]) /\ MonthField(parts[2])) THEN <<>>
        ELSE <<ToInt(parts[1]), ToInt(parts[2])>>

MONTH_NAMES ==
    << "January", "February", "March", "April", "May", "June", "July",
       "August", "September", "October", "November", "December" >>

\* datetime.strptime(s, '%Y-%m').strftime('%B %Y'), for a month that parses
MonthName(s) ==
    LET ym == ParseMonth(s)
        y == ym[1]
        digit(k) == CharAt(DIGITS, ((y \div k) % 10) + 1)
    IN  MONTH_NAMES[ym[2]] \o " " \o digit(1000) \o digit(100) \o digit(10) \o digit(1)

\* d[:7]
Prefix7(d) == SubSeq(d, 1, Min(7, Len(d)))

\* list.sort and sorted by a key, stable: the positions of keys in the order of
\* the sort.  A position goes after those of smaller key and after those of equal
\* key that precede it.
SortOrder(keys) ==
    LET n == Len(keys)
        Before(j, k) == KeyLess(keys[j], keys[k]) \/ (~KeyLess(keys[k], keys[j]) /\ j < k)
        Rank(k) == Cardinality({j \in 1..n : j # k /\ Before(j, k)}) + 1
    IN  [r \in 1..n |-> CHOOSE k \in 1..n : Rank(k) = r]

\* sorted(S) for a set S of str
SortedStrings(S) ==
    [r \in 1..Cardinality(S) |->
        CHOOSE x \in S : Cardinality({y \in S : StrLess(y, x)}) = r - 1]

\* every order in which the elements of a set can be listed
RECURSIVE Orderings(_)
Orderings(S) ==
    IF S = {} THEN {<<>>}
    ELSE UNION {{<<x>> \o rest : rest \in Orderings(S \ {x})} : x \in S}

(***************************************************************************)
(* MAIN ANALYSIS LOGIC: the state of one call of process_analysis          *)
(* (src/logic.py lines 162-589).                                           *)
(*                                                                         *)
(* The arguments.  account_info is a dict whose keys the code enumerates   *)
(* (lines 177 and 490): it is the sequence of its (key, value) pairs in    *)
(* the order the dict yields them.  uploaded_data is only looked up, and   *)
(* is a function on its keys.  A raw transaction and a monthly summary are *)
(* records that may lack any of their fields.                              *)
(***************************************************************************)
VARIABLES company_name, company_keywords, related_parties, account_info, uploaded_data

(***************************************************************************)
(* The locals.  pc is the section the run is in and i the position of the  *)
(* running loop in credits_sorted or debits_sorted.  The lists credits,    *)
(* debits, credits_sorted, debits_sorted, related_party_credits and        *)
(* related_party_debits hold references to the dicts of all_transactions:  *)
(* here they hold the sorted_idx of the transaction, and                   *)
(* all_transactions[k + 1] is the transaction of sorted_idx k.             *)
(* missing_bank_codes is a Python set: it is held as a sequence, the       *)
(* order in which an iteration of the set yields its elements.  lists      *)
(* holds the storage lists of lines 228-243, totals the sums of section 6, *)
(* metrics the values of section 7.  error names the exception that ended  *)
(* the run, result is the returned dict.                                   *)
(***************************************************************************)
VARIABLES pc, i, rp_patterns, all_transactions, missing_accounts, missing_bank_codes,
          credits_sorted, debits_sorted, used_indices, lists, totals, metrics,
          checks, score, result, error

(***************************************************************************)
(* The surroundings of the call.  clock is the last reading of the system  *)
(* clock, the second of the minute the runs take place in.  run counts the *)
(* calls made with these arguments and previous is what the call before    *)
(* this one returned.                                                      *)
(***************************************************************************)
VARIABLES clock, run, previous

env == <<clock, run, previous>>

args == <<company_name, company_keywords, related_parties, account_info, uploaded_data>>

locals == <<rp_patterns, all_transactions, missing_accounts, missing_bank_codes,
            credits_sorted, debits_sorted, used_indices, lists, totals, metrics,
            checks, score, result, error>>

vars == <<args, pc, i, locals, env>>

\* category: None
NoCategory == "None"

\* the storage lists as lines 228-243 create them
EmptyLists ==
    [matched_transfers |-> <<>>,
     unverified_credit_transfers |-> <<>>,
     unverified_debit_transfers |-> <<>>,
     related_party_credits |-> <<>>,
     related_party_debits |-> <<>>,
     loan_disbursements |-> <<>>,
     interest_credits |-> <<>>,
     reversals |-> <<>>,
     genuine_credits |-> <<>>,
     statutory_payments |-> <<>>,
     salary_wages |-> <<>>,
     utilities |-> <<>>,
     bank_charges |-> <<>>,
     supplier_payments |-> <<>>,
     statutory_by_type |-> <<>>]

\* the state at the call, for the arguments in
Start(in) ==
    /\ company_name = in.company_name
    /\ company_keywords = in.company_keywords
    /\ related_parties = in.related_parties
    /\ account_info = in.account_info
    /\ uploaded_data = in.uploaded_data
    /\ pc = "patterns"
    /\ i = 1
    /\ rp_patterns = <<>>
    /\ all_transactions = <<>>
    /\ missing_accounts = <<>>
    /\ missing_bank_codes = <<>>
    /\ credits_sorted = <<>>
    /\ debits_sorted = <<>>
    /\ used_indices = {}
    /\ lists = EmptyLists
    /\ totals = <<>>
    /\ metrics = <<>>
    /\ checks = <<>>
    /\ score = 0
    /\ result = <<>>
    /\ error = ""
    /\ clock = 0
    /\ run = 1
    /\ previous = <<>>

\* the transaction of sorted_idx k
Txn(k) == all_transactions[k + 1]

\* line 171
GeneratePatterns ==
    /\ pc = "patterns"
    /\ rp_patterns' = generate_related_party_patterns(related_parties)
    /\ pc' = "combine"
    /\ UNCHANGED <<args, i, all_transactions, missing_accounts, missing_bank_codes,
                   credits_sorted, debits_sorted, used_indices, lists, totals, metrics,
                   checks, score, result, error, env>>

(***************************************************************************)
(* 1. Combine Transactions (lines 174-210)                                 *)
(***************************************************************************)
AccountIds == {account_info[k][1] : k \in 1..Len(account_info)}

\* account_info[acc_id]
InfoOf(acc_id) ==
    account_info[CHOOSE k \in 1..Len(account_info) : account_info[k][1] = acc_id][2]

\* the keys as account_info yields them, without the sort
SortedAccountIds_AsEnumerated == [k \in 1..Len(account_info) |-> account_info[k][1]]

\* sorted(account_info.keys())
SortedAccountIds == SortedStrings(AccountIds)

\* the loops over the uploaded files, whatever the metadata hold
IncludedAccounts_AllUploaded == SortedStrings(DOMAIN uploaded_data)

\* the accounts the loops of lines 177 and 490 do not skip, in their order
IncludedAccounts == SelectSeq(SortedAccountIds, LAMBDA acc_id : acc_id \in DOMAIN uploaded_data)

\* txn.get(field, 0) or 0: a field that is absent (or null) counts 0
Amount(txn, field) == Get(txn, field, 0)

\* line 188 with or for and: the row has no amount on one of the sides
IsZeroRow_EitherZero(txn) == Amount(txn, "credit") = 0 \/ Amount(txn, "debit") = 0

\* line 188: the row has no amount on either side
IsZeroRow(txn) == Amount(txn, "credit") = 0 /\ Amount(txn, "debit") = 0

\* the rows of the accounts accs (in order) that line 188 does not skip
RECURSIVE RetainedRows(_)
RetainedRows(accs) ==
    IF accs = <<>> THEN <<>>
    ELSE LET acc_id == Head(accs)
             txns == Get(uploaded_data[acc_id], "transactions", <<>>)
             kept == SelectSeq(txns, LAMBDA txn : ~IsZeroRow(txn))
         IN  [k \in 1..Len(kept) |-> [account_id |-> acc_id, txn |-> kept[k]]]
             \o RetainedRows(Tail(accs))

\* the dict of lines 191-205
NewTransaction(row, idx) ==
    [idx |-> idx,
     account_id |-> row.account_id,
     date |-> row.txn.date,
     description |-> row.txn.description,
     debit |-> Amount(row.txn, "debit"),
     credit |-> Amount(row.txn, "credit"),
     balance |-> Amount(row.txn, "balance"),
     category |-> NoCategory,
     exclude_from_turnover |-> FALSE,
     is_related_party |-> FALSE,
     related_party_name |-> "",
     related_party_relationship |-> "",
     purpose_note |-> ""]

\* lines 174-206: txn['date'] and txn['description'] raise KeyError on a retained
\* row that lacks the field
CombineTransactions ==
    /\ pc = "combine"
    /\ LET rows == RetainedRows(IncludedAccounts)
           complete == \A k \in 1..Len(rows) :
                           {"date", "description"} \subseteq DOMAIN rows[k].txn
       IN  IF complete
           THEN /\ all_transactions' = [k \in 1..Len(rows) |-> NewTransaction(rows[k], k - 1)]
                /\ pc' = "sort"
                /\ error' = error
           ELSE /\ all_transactions' = all_transactions
                /\ pc' = "failed"
                /\ error' = "KeyError"
    /\ UNCHANGED <<args, i, rp_patterns, missing_accounts, missing_bank_codes,
                   credits_sorted, debits_sorted, used_indices, lists, totals, metrics,
                   checks, score, result, env>>

\* txn['sorted_idx'] = i
WithSortedIdx(txn, k) ==
    [f \in DOMAIN txn \cup {"sorted_idx"} |-> IF f = "sorted_idx" THEN k ELSE txn[f]]

\* lines 208-210
SortTransactions ==
    /\ pc = "sort"
    /\ LET order == SortOrder([k \in 1..Len(all_transactions) |->
                                   create_transaction_key(all_transactions[k])])
       IN  all_transactions' = [k \in 1..Len(order) |->
                                   WithSortedIdx(all_transactions[order[k]], k - 1)]
    /\ pc' = "missing_banks"
    /\ UNCHANGED <<args, i, rp_patterns, missing_accounts, missing_bank_codes,
                   credits_sorted, debits_sorted, used_indices, lists, totals, metrics,
                   checks, score, result, error, env>>

(***************************************************************************)
(* 2. Missing Bank Detection (lines 212-220)                               *)
(***************************************************************************)
\* the keys line 218 increments for one description, in the order of BANK_CODES
MissingKeys(desc_upper) ==
    LET hits == SelectSeq(BANK_CODES, LAMBDA entry :
                    Contains(entry[1], desc_upper) /\ entry[1] \notin PROVIDED_BANK_CODES)
    IN  [k \in 1..Len(hits) |-> hits[k][1] \o " (" \o hits[k][2] \o ")"]

\* the keys line 218 increments, in the order of the loops of lines 214-218,
\* from transaction k on
RECURSIVE IncrementedKeys(_)
IncrementedKeys(k) ==
    IF k > Len(all_transactions) THEN <<>>
    ELSE MissingKeys(Upper(all_transactions[k].description)) \o IncrementedKeys(k + 1)

\* the defaultdict(int) that a += 1 for each key of keys, in order, builds: the
\* sequence of its (key, count) pairs, a key placed by its first increment
CountKeys(keys) ==
    LET first == {k \in 1..Len(keys) : \A j \in 1..(k - 1) : keys[j] # keys[k]}
        order == [r \in 1..Cardinality(first) |->
                     CHOOSE k \in first : Cardinality({j \in first : j < k}) = r - 1]
    IN  [r \in 1..Len(order) |->
            <<keys[order[r]], Cardinality({j \in 1..Len(keys) : keys[j] = keys[order[r]]})>>]

\* lines 213-220; the set of line 220 iterates in an order of its own
MissingBankDetection ==
    /\ pc = "missing_banks"
    /\ LET counted == CountKeys(IncrementedKeys(1))
           codes == {Split(counted[k][1])[1] : k \in 1..Len(counted)}
       IN  /\ missing_accounts' = counted
           /\ missing_bank_codes' \in Orderings(codes)
    /\ pc' = "separate"
    /\ UNCHANGED <<args, i, rp_patterns, all_transactions, credits_sorted, debits_sorted,
                   used_indices, lists, totals, metrics, checks, score, result, error, env>>

(***************************************************************************)
(* 3. Separate Credits/Debits (lines 222-247)                              *)
(***************************************************************************)
\* the sorted_idx of the transactions with a positive amount on the side
SideIndices(side) ==
    LET all == [k \in 1..Len(all_transactions) |-> k - 1]
    IN  SelectSeq(all, LAMBDA k : Txn(k)[side] > 0)

\* sorted(side, key=lambda x: (x['date'], -x[side], x['description']))
SortSide(indices, side) ==
    LET order == SortOrder([k \in 1..Len(indices) |->
                               <<Txn(indices[k]).date, 0 - Txn(indices[k])[side],
                                 Txn(indices[k]).description>>])
    IN  [k \in 1..Len(order) |-> indices[order[k]]]

SeparateCreditsDebits ==
    /\ pc = "separate"
    /\ credits_sorted' = SortSide(SideIndices("credit"), "credit")
    /\ debits_sorted' = SortSide(SideIndices("debit"), "debit")
    /\ used_indices' = {}
    /\ lists' = EmptyLists
    /\ i' = 1
    /\ pc' = "matched"
    /\ UNCHANGED <<args, rp_patterns, all_transactions, missing_accounts, missing_bank_codes,
                   totals, metrics, checks, score, result, error, env>>

(***************************************************************************)
(* The loops of sections 4 and 5.  Each is a loop over credits_sorted or   *)
(* debits_sorted; one step of an action is one iteration of it, and the    *)
(* step that finds the list exhausted moves to the next loop.              *)
(***************************************************************************)
\* what no loop of sections 4 and 5 assigns
loop_frame == <<args, rp_patterns, missing_accounts, missing_bank_codes, credits_sorted,
                debits_sorted, totals, metrics, checks, score, result, env>>

\* NextLoop with the salary loop of the debits before their statutory loop
NextLoop_SalaryBeforeStatutory(next) ==
    /\ pc' = (IF pc = "unverified_debit" THEN "salary"
              ELSE IF pc = "salary" THEN "statutory"
              ELSE IF pc = "statutory" THEN "utilities"
              ELSE next)
    /\ i' = 1
    /\ UNCHANGED <<all_transactions, used_indices, lists, error>>

\* NextLoop with the related-party loop of the credits before their unverified
\* loop, the order the debits have
NextLoop_RelatedPartyFirst(next) ==
    /\ pc' = (IF pc = "matched" THEN "rp_credit"
              ELSE IF pc = "rp_credit" THEN "unverified_credit"
              ELSE IF pc = "unverified_credit" THEN "loan"
              ELSE next)
    /\ i' = 1
    /\ UNCHANGED <<all_transactions, used_indices, lists, error>>

\* the loop is over: on to the loop (or section) next
NextLoop(next) ==
    /\ pc' = next
    /\ i' = 1
    /\ UNCHANGED <<all_transactions, used_indices, lists, error>>

\* continue: the iteration leaves the transaction alone
Continue ==
    /\ pc' = pc
    /\ i' = i + 1
    /\ UNCHANGED <<all_transactions, used_indices, lists, error>>

\* Categorize, leaving exclude_from_turnover as line 203 set it
Categorize_KeepFlag(txns, ks, category, exclude) ==
    [k \in 1..Len(txns) |->
        IF (k - 1) \in ks THEN [txns[k] EXCEPT !.category = category] ELSE txns[k]]

\* txn['category'] = category; txn['exclude_from_turnover'] = exclude, for the
\* transactions of sorted_idx in ks
Categorize(txns, ks, category, exclude) ==
    [k \in 1..Len(txns) |->
        IF (k - 1) \in ks
        THEN [txns[k] EXCEPT !.category = category, !.exclude_from_turnover = exclude]
        ELSE txns[k]]

\* the dict {'date', 'amount', 'description'} most lists take
Entry(txn, side) ==
    [date |-> txn.date, amount |-> txn[side], description |-> txn.description]

\* line 256 left out: no debit counts as taken
Used_Never(txn) == FALSE

\* line 256: the debit is taken already
Used(txn) == txn.sorted_idx \in used_indices

\* lines 261-264: abs((c_date - d_date).days) in a tuple, <<>> when strptime raises
\* ValueError
DayDifference(c_date_str, d_date_str) ==
    LET c_date == ParseDate(c_date_str)
        d_date == ParseDate(d_date_str)
    IN  IF c_date = <<>> \/ d_date = <<>> THEN <<>>
        ELSE <<Abs(c_date[1] - d_date[1])>>

\* ScanDebits taking the last of the debits the credit can be matched with, not
\* the first
ScanDebits_Last(c, j) ==
    LET fits(d) ==
            /\ ~Used(d)
            /\ d.account_id # c.account_id
            /\ Abs(c.credit - d.debit) <= 1
            /\ DayDifference(c.date, d.date) # <<>>
            /\ DayDifference(c.date, d.date)[1] <= 1
            /\ \/ has_inter_account_marker(Upper(c.description))
               \/ has_inter_account_marker(Upper(d.description))
               \/ has_company_name(Upper(c.description), company_keywords)
               \/ has_company_name(Upper(d.description), company_keywords)
               \/ c.credit >= 50000
        ok == {k \in j..Len(debits_sorted) : fits(Txn(debits_sorted[k]))}
    IN  IF ok = {} THEN 0 ELSE CHOOSE k \in ok : \A m \in ok : m <= k

\* Priority 1: Inter-Account Matched, the inner loop (lines 255-288) for the
\* credit c from position j of debits_sorted on: the position of the debit the
\* credit is matched with, 0 when the loop ends without a match, and -1 when
\* strptime raises
RECURSIVE ScanDebits(_, _)
ScanDebits(c, j) ==
    IF j > Len(debits_sorted) THEN 0
    ELSE LET d == Txn(debits_sorted[j])
         IN  IF Used(d) THEN ScanDebits(c, j + 1)
             ELSE IF d.account_id = c.account_id THEN ScanDebits(c, j + 1)
             ELSE IF Abs(c.credit - d.debit) > 1 THEN ScanDebits(c, j + 1)
             ELSE LET days == DayDifference(c.date, d.date)
                  IN  IF days = <<>> THEN 0 - 1
                      ELSE IF days[1] > 1 THEN ScanDebits(c, j + 1)
                      ELSE LET c_desc == Upper(c.description)
                               d_desc == Upper(d.description)
                               has_marker ==
                                   \/ has_inter_account_marker(c_desc)
                                   \/ has_inter_account_marker(d_desc)
                                   \/ has_company_name(c_desc, company_keywords)
                                   \/ has_company_name(d_desc, company_keywords)
                           IN  IF has_marker \/ c.credit >= 50000 THEN j
                               ELSE ScanDebits(c, j + 1)

\* the dict of lines 272-281
MatchedTransfer(c, d) ==
    [date |-> c.date,
     amount |-> c.credit,
     from_account |-> d.account_id,
     to_account |-> c.account_id,
     credit_description |-> c.description,
     debit_description |-> d.description,
     credit_idx |-> c.sorted_idx,
     debit_idx |-> d.sorted_idx]

\* lines 252-288, one credit
MatchedTransferPass ==
    /\ pc = "matched"
    /\ IF i > Len(credits_sorted) THEN NextLoop("unverified_credit")
       ELSE LET credit_txn == Txn(credits_sorted[i])
                j == IF credit_txn.sorted_idx \in used_indices THEN 0
                     ELSE ScanDebits(credit_txn, 1)
            IN  IF j = 0 THEN Continue
                ELSE IF j < 0
                THEN /\ pc' = "failed"
                     /\ error' = "ValueError"
                     /\ UNCHANGED <<i, all_transactions, used_indices, lists>>
                ELSE LET debit_txn == Txn(debits_sorted[j])
                         pair == {credit_txn.sorted_idx, debit_txn.sorted_idx}
                     IN  /\ lists' = [lists EXCEPT !.matched_transfers =
                                         Append(@, MatchedTransfer(credit_txn, debit_txn))]
                         /\ all_transactions' =
                                Categorize(all_transactions, pair, "INTER_ACCOUNT_TRANSFER", TRUE)
                         /\ used_indices' = used_indices \cup pair
                         /\ pc' = pc
                         /\ i' = i + 1
                         /\ error' = error
    /\ UNCHANGED loop_frame

\* the condition of lines 294-296 and 388-389
IsUnverifiedTransfer(txn) ==
    LET desc_upper == Upper(txn.description)
    IN  /\ get_missing_bank_code(desc_upper, missing_bank_codes) # ""
        /\ \/ has_inter_account_marker(desc_upper)
           \/ has_company_name(desc_upper, company_keywords)

\* the dict of lines 297-305 and 390-398
UnverifiedTransfer(txn, type, side) ==
    [date |-> txn.date,
     account |-> txn.account_id,
     type |-> type,
     amount |-> txn[side],
     description |-> txn.description,
     target_bank |-> get_missing_bank_code(Upper(txn.description), missing_bank_codes),
     verification_status |-> "UNVERIFIED"]

\* Assign without the used_indices.add: the transaction is left for the loops
\* that follow
Assign_NotMarked(k, category, exclude) ==
    /\ all_transactions' = Categorize(all_transactions, {k}, category, exclude)
    /\ used_indices' = used_indices
    /\ pc' = pc
    /\ i' = i + 1
    /\ error' = error

\* the assignments every rule of the cascade ends with, for the transaction
\* of sorted_idx k
Assign(k, category, exclude) ==
    /\ all_transactions' = Categorize(all_transactions, {k}, category, exclude)
    /\ used_indices' = used_indices \cup {k}
    /\ pc' = pc
    /\ i' = i + 1
    /\ error' = error

\* lines 315-320 and 375-380 with the used_indices.add of the loop
AssignRelatedParty(k, rp_match) ==
    /\ all_transactions' =
           [all_transactions EXCEPT ![k + 1] =
               [@ EXCEPT !.category = "RELATED_PARTY",
                         !.exclude_from_turnover = TRUE,
                         !.is_related_party = TRUE,
                         !.related_party_name = rp_match.name,
                         !.related_party_relationship = rp_match.relationship,
                         !.purpose_note = rp_match.purpose_note]]
    /\ used_indices' = used_indices \cup {k}
    /\ pc' = pc
    /\ i' = i + 1
    /\ error' = error

(***************************************************************************)
(* 4. CREDIT CATEGORIZATION (lines 290-365)                                *)
(***************************************************************************)
\* Priority 2: Unverified IA (lines 291-308)
UnverifiedCreditPass ==
    /\ pc = "unverified_credit"
    /\ IF i > Len(credits_sorted) THEN NextLoop("rp_credit")
       ELSE LET credit_txn == Txn(credits_sorted[i])
            IN  IF credit_txn.sorted_idx \in used_indices THEN Continue
                ELSE IF IsUnverifiedTransfer(credit_txn)
                THEN /\ lists' = [lists EXCEPT !.unverified_credit_transfers =
                                     Append(@, UnverifiedTransfer(credit_txn, "CREDIT", "credit"))]
                     /\ Assign(credit_txn.sorted_idx, "INTER_ACCOUNT_TRANSFER_UNVERIFIED", TRUE)
                ELSE Continue
    /\ UNCHANGED loop_frame

\* Priority 3: Related Party (lines 311-322)
RelatedPartyCreditPass ==
    /\ pc = "rp_credit"
    /\ IF i > Len(credits_sorted) THEN NextLoop("loan")
       ELSE LET credit_txn == Txn(credits_sorted[i])
                rp_match == check_related_party(credit_txn.description, rp_patterns)
            IN  IF credit_txn.sorted_idx \in used_indices THEN Continue
                ELSE IF rp_match # <<>>
                THEN /\ lists' = [lists EXCEPT !.related_party_credits =
                                     Append(@, credit_txn.sorted_idx)]
                     /\ AssignRelatedParty(credit_txn.sorted_idx, rp_match[1])
                ELSE Continue
    /\ UNCHANGED loop_frame

\* Priority 4: Loan Disbursement (lines 325-332)
LoanDisbursementPass ==
    /\ pc = "loan"
    /\ IF i > Len(credits_sorted) THEN NextLoop("interest")
       ELSE LET credit_txn == Txn(credits_sorted[i])
            IN  IF credit_txn.sorted_idx \in used_indices THEN Continue
                ELSE IF AnyKeyword(DISBURSEMENT_KEYWORDS, Upper(credit_txn.description))
                THEN /\ lists' = [lists EXCEPT !.loan_disbursements =
                                     Append(@, Entry(credit_txn, "credit"))]
                     /\ Assign(credit_txn.sorted_idx, "LOAN_DISBURSEMENT", TRUE)
                ELSE Continue
    /\ UNCHANGED loop_frame

\* Priority 5: Interest (lines 335-342)
InterestPass ==
    /\ pc = "interest"
    /\ IF i > Len(credits_sorted) THEN NextLoop("reversal")
       ELSE LET credit_txn == Txn(credits_sorted[i])
            IN  IF credit_txn.sorted_idx \in used_indices THEN Continue
                ELSE IF AnyKeyword(INTEREST_KEYWORDS, Upper(credit_txn.description))
                THEN /\ lists' = [lists EXCEPT !.interest_credits =
                                     Append(@, Entry(credit_txn, "credit"))]
                     /\ Assign(credit_txn.sorted_idx, "INTEREST_PROFIT_DIVIDEND", TRUE)
                ELSE Continue
    /\ UNCHANGED loop_frame

\* Priority 6: Reversal (lines 345-352)
ReversalPass ==
    /\ pc = "reversal"
    /\ IF i > Len(credits_sorted) THEN NextLoop("genuine")
       ELSE LET credit_txn == Txn(credits_sorted[i])
            IN  IF credit_txn.sorted_idx \in used_indices THEN Continue
                ELSE IF AnyKeyword(REVERSAL_KEYWORDS, Upper(credit_txn.description))
                THEN /\ lists' = [lists EXCEPT !.reversals =
                                     Append(@, Entry(credit_txn, "credit"))]
                     /\ Assign(credit_txn.sorted_idx, "REVERSAL", TRUE)
                ELSE Continue
    /\ UNCHANGED loop_frame

\* Priority 7: Genuine (lines 355-365)
GenuinePass ==
    /\ pc = "genuine"
    /\ IF i > Len(credits_sorted) THEN NextLoop("rp_debit")
       ELSE LET credit_txn == Txn(credits_sorted[i])
            IN  IF credit_txn.sorted_idx \in used_indices THEN Continue
                ELSE /\ lists' = [lists EXCEPT !.genuine_credits =
                                     Append(@, [date |-> credit_txn.date,
                                                amount |-> credit_txn.credit,
                                                description |-> credit_txn.description,
                                                account |-> credit_txn.account_id])]
                     /\ Assign(credit_txn.sorted_idx, "GENUINE_SALES_COLLECTIONS", FALSE)
    /\ UNCHANGED loop_frame

(***************************************************************************)
(* 5. DEBIT CATEGORIZATION (lines 367-456)                                 *)
(***************************************************************************)
\* Priority 2: Related Party (lines 371-382)
RelatedPartyDebitPass ==
    /\ pc = "rp_debit"
    /\ IF i > Len(debits_sorted) THEN NextLoop("unverified_debit")
       ELSE LET debit_txn == Txn(debits_sorted[i])
                rp_match == check_related_party(debit_txn.description, rp_patterns)
            IN  IF debit_txn.sorted_idx \in used_indices THEN Continue
                ELSE IF rp_match # <<>>
                THEN /\ lists' = [lists EXCEPT !.related_party_debits =
                                     Append(@, debit_txn.sorted_idx)]
                     /\ AssignRelatedParty(debit_txn.sorted_idx, rp_match[1])
                ELSE Continue
    /\ UNCHANGED loop_frame

\* Priority 3: Unverified IA (lines 385-401)
UnverifiedDebitPass ==
    /\ pc = "unverified_debit"
    /\ IF i > Len(debits_sorted) THEN NextLoop("statutory")
       ELSE LET debit_txn == Txn(debits_sorted[i])
            IN  IF debit_txn.sorted_idx \in used_indices THEN Continue
                ELSE IF IsUnverifiedTransfer(debit_txn)
                THEN /\ lists' = [lists EXCEPT !.unverified_debit_transfers =
                                     Append(@, UnverifiedTransfer(debit_txn, "DEBIT", "debit"))]
                     /\ Assign(debit_txn.sorted_idx, "INTER_ACCOUNT_TRANSFER_UNVERIFIED", TRUE)
                ELSE Continue
    /\ UNCHANGED loop_frame

\* d[key].append(v) for a defaultdict(list) d held as the sequence of its pairs
AppendTo(d, key, v) ==
    IF \E k \in 1..Len(d) : d[k][1] = key
    THEN [k \in 1..Len(d) |-> IF d[k][1] = key THEN <<key, Append(d[k][2], v)>> ELSE d[k]]
    ELSE Append(d, <<key, <<v>> >>)

\* d.get(key, []) for the same
ListOf(d, key) ==
    IF \E k \in 1..Len(d) : d[k][1] = key
    THEN d[CHOOSE k \in 1..Len(d) : d[k][1] = key][2]
    ELSE <<>>

\* Priority 4: Statutory (lines 404-418)
StatutoryPass ==
    /\ pc = "statutory"
    /\ IF i > Len(debits_sorted) THEN NextLoop("salary")
       ELSE LET debit_txn == Txn(debits_sorted[i])
                stat_type == check_statutory(debit_txn.description)
            IN  IF debit_txn.sorted_idx \in used_indices THEN Continue
                ELSE IF stat_type # ""
                THEN /\ lists' = [lists EXCEPT
                            !.statutory_payments =
                                Append(@, [date |-> debit_txn.date,
                                           type |-> stat_type,
                                           amount |-> debit_txn.debit,
                                           description |-> debit_txn.description,
                                           account |-> debit_txn.account_id]),
                            !.statutory_by_type =
                                AppendTo(@, stat_type, Prefix7(debit_txn.date))]
                     /\ Assign(debit_txn.sorted_idx, "STATUTORY_PAYMENT", FALSE)
                ELSE Continue
    /\ UNCHANGED loop_frame

\* Priority 5: Salary (lines 421-428)
SalaryPass ==
    /\ pc = "salary"
    /\ IF i > Len(debits_sorted) THEN NextLoop("utilities")
       ELSE LET debit_txn == Txn(debits_sorted[i])
            IN  IF debit_txn.sorted_idx \in used_indices THEN Continue
                ELSE IF AnyKeyword(SALARY_KEYWORDS, Upper(debit_txn.description))
                THEN /\ lists' = [lists EXCEPT !.salary_wages =
                                     Append(@, Entry(debit_txn, "debit"))]
                     /\ Assign(debit_txn.sorted_idx, "SALARY_WAGES", FALSE)
                ELSE Continue
    /\ UNCHANGED loop_frame

\* Priority 6: Utilities (lines 431-438)
UtilitiesPass ==
    /\ pc = "utilities"
    /\ IF i > Len(debits_sorted) THEN NextLoop("bank_charges")
       ELSE LET debit_txn == Txn(debits_sorted[i])
            IN  IF debit_txn.sorted_idx \in used_indices THEN Continue
                ELSE IF AnyKeyword(UTILITY_KEYWORDS, Upper(debit_txn.description))
                THEN /\ lists' = [lists EXCEPT !.utilities =
                                     Append(@, Entry(debit_txn, "debit"))]
                     /\ Assign(debit_txn.sorted_idx, "UTILITIES", FALSE)
                ELSE Continue
    /\ UNCHANGED loop_frame

\* Priority 7: Bank Charges (lines 441-448)
BankChargesPass ==
    /\ pc = "bank_charges"
    /\ IF i > Len(debits_sorted) THEN NextLoop("supplier")
       ELSE LET debit_txn == Txn(debits_sorted[i])
            IN  IF debit_txn.sorted_idx \in used_indices THEN Continue
                ELSE IF /\ AnyKeyword(BANK_CHARGE_KEYWORDS, Upper(debit_txn.description))
                        /\ debit_txn.debit < 1000
                THEN /\ lists' = [lists EXCEPT !.bank_charges =
                                     Append(@, Entry(debit_txn, "debit"))]
                     /\ Assign(debit_txn.sorted_idx, "BANK_CHARGES", FALSE)
                ELSE Continue
    /\ UNCHANGED loop_frame

\* Priority 8: Supplier (Default) (lines 451-456)
SupplierPass ==
    /\ pc = "supplier"
    /\ IF i > Len(debits_sorted) THEN NextLoop("totals")
       ELSE LET debit_txn == Txn(debits_sorted[i])
            IN  IF debit_txn.sorted_idx \in used_indices THEN Continue
                ELSE /\ lists' = [lists EXCEPT !.supplier_payments =
                                     Append(@, Entry(debit_txn, "debit"))]
                     /\ Assign(debit_txn.sorted_idx, "SUPPLIER_VENDOR_PAYMENTS", FALSE)
    /\ UNCHANGED loop_frame

(***************************************************************************)
(* 6. TOTALS (lines 459-481)                                               *)
(***************************************************************************)
\* sum(t['amount'] for t in entries)
SumAmounts(entries) == SumSeq([k \in 1..Len(entries) |-> entries[k].amount])

\* sum(t[side] for t in refs), refs a list of references to transactions
SumSide(refs, side) == SumSeq([k \in 1..Len(refs) |-> Txn(refs[k])[side]])

\* sum(t[side] for t in all_transactions if t[side] > 0)
GrossTotal(side) ==
    SumSeq([k \in 1..Len(all_transactions) |->
               IF all_transactions[k][side] > 0 THEN all_transactions[k][side] ELSE 0])

Totals ==
    /\ pc = "totals"
    /\ LET total_credits == GrossTotal("credit")
           total_debits == GrossTotal("debit")
           matched_credit_amount == SumAmounts(lists.matched_transfers)
           unverified_credit_amount == SumAmounts(lists.unverified_credit_transfers)
           rp_credit_amount == SumSide(lists.related_party_credits, "credit")
           loan_disb_amount == SumAmounts(lists.loan_disbursements)
           interest_amount == SumAmounts(lists.interest_credits)
           reversal_amount == SumAmounts(lists.reversals)
           total_credit_exclusions ==
               matched_credit_amount + unverified_credit_amount + rp_credit_amount
               + loan_disb_amount + interest_amount + reversal_amount
           matched_debit_amount == matched_credit_amount
           unverified_debit_amount == SumAmounts(lists.unverified_debit_transfers)
           rp_debit_amount == SumSide(lists.related_party_debits, "debit")
           total_debit_exclusions ==
               matched_debit_amount + unverified_debit_amount + rp_debit_amount
       IN  totals' =
               [total_credits |-> total_credits,
                total_debits |-> total_debits,
                matched_credit_amount |-> matched_credit_amount,
                unverified_credit_amount |-> unverified_credit_amount,
                rp_credit_amount |-> rp_credit_amount,
                loan_disb_amount |-> loan_disb_amount,
                interest_amount |-> interest_amount,
                reversal_amount |-> reversal_amount,
                total_credit_exclusions |-> total_credit_exclusions,
                matched_debit_amount |-> matched_debit_amount,
                unverified_debit_amount |-> unverified_debit_amount,
                rp_debit_amount |-> rp_debit_amount,
                total_debit_exclusions |-> total_debit_exclusions,
                net_credits |-> total_credits - total_credit_exclusions,
                net_debits |-> total_debits - total_debit_exclusions]
    /\ pc' = "accounts"
    /\ UNCHANGED <<args, i, rp_patterns, all_transactions, missing_accounts,
                   missing_bank_codes, credits_sorted, debits_sorted, used_indices, lists,
                   metrics, checks, score, result, error, env>>

(***************************************************************************)
(* 7. METRICS AND SCORING (lines 483-542)                                  *)
(***************************************************************************)
\* acc_data.get('monthly_summary', [])
MonthlySummary(acc_id) == Get(uploaded_data[acc_id], "monthly_summary", <<>>)

\* the dict of lines 506-515
MonthlyEntry(m) ==
    LET high == Get(m, "highest_balance", 0)
        low == Get(m, "lowest_balance", 0)
    IN  [month |-> m.month,
         month_name |-> MonthName(m.month),
         transaction_count |-> Get(m, "transaction_count", 0),
         opening |-> Get(m, "ending_balance", 0) - Get(m, "net_change", 0),
         closing |-> Get(m, "ending_balance", 0),
         credits |-> Get(m, "total_credit", 0),
         debits |-> Get(m, "total_debit", 0),
         volatility_level |-> calculate_volatility(high, low).level]

\* the dict of lines 517-522
AccountEntry(acc_id) ==
    LET m_summary == MonthlySummary(acc_id)
    IN  [account_id |-> acc_id,
         bank_name |-> InfoOf(acc_id).bank_name,
         account_number |-> InfoOf(acc_id).account_number,
         monthly_summary |-> [k \in 1..Len(m_summary) |-> MonthlyEntry(m_summary[k])]]

\* the exception the body of the loop of line 490 raises for the account, "" if
\* none: m['month'] of a summary without the month, strptime of a month that
\* does not parse, info['bank_name'] or info['account_number'] of a metadata
\* entry without it
RECURSIVE MonthError(_, _)
MonthError(m_summary, k) ==
    IF k > Len(m_summary) THEN ""
    ELSE IF "month" \notin DOMAIN m_summary[k] THEN "KeyError"
    ELSE IF ParseMonth(m_summary[k].month) = <<>> THEN "ValueError"
    ELSE MonthError(m_summary, k + 1)

AccountError(acc_id) ==
    LET e == MonthError(MonthlySummary(acc_id), 1)
    IN  IF e # "" THEN e
        ELSE IF {"bank_name", "account_number"} \subseteq DOMAIN InfoOf(acc_id) THEN ""
        ELSE "KeyError"

\* all_highs and all_lows (field 'highest_balance' or 'lowest_balance') over the
\* accounts accs
RECURSIVE AllBalances(_, _)
AllBalances(accs, field) ==
    IF accs = <<>> THEN <<>>
    ELSE LET m_summary == MonthlySummary(Head(accs))
         IN  [k \in 1..Len(m_summary) |-> Get(m_summary[k], field, 0)]
             \o AllBalances(Tail(accs), field)

SeqMax(s) == CHOOSE x \in Range(s) : \A y \in Range(s) : y <= x

SeqMin(s) == CHOOSE x \in Range(s) : \A y \in Range(s) : x <= y

\* lines 486-542.  round_figure_pct is the fraction <<numerator, denominator>>.
Metrics ==
    /\ pc = "accounts"
    /\ LET accs == IncludedAccounts
           failing == {k \in 1..Len(accs) : AccountError(accs[k]) # ""}
           all_highs == AllBalances(accs, "highest_balance")
           all_lows == AllBalances(accs, "lowest_balance")
           overall == IF all_highs # <<>> /\ all_lows # <<>>
                      THEN calculate_volatility(SeqMax(all_highs), SeqMin(all_lows))
                      ELSE [vol_pct |-> 0, level |-> "LOW"]
           round_figure_credits ==
               SelectSeq(lists.genuine_credits, LAMBDA t : is_round_figure(t.amount))
           round_figure_total == SumAmounts(round_figure_credits)
           expected_months ==
               SortedStrings({Prefix7(all_transactions[k].date) :
                                 k \in 1..Len(all_transactions)})
       IN  IF failing # {}
           THEN /\ pc' = "failed"
                /\ error' = AccountError(accs[CHOOSE k \in failing : \A j \in failing : k <= j])
                /\ metrics' = metrics
           ELSE /\ pc' = "scoring"
                /\ error' = error
                /\ metrics' =
                       [accounts |-> [k \in 1..Len(accs) |-> AccountEntry(accs[k])],
                        all_highs |-> all_highs,
                        all_lows |-> all_lows,
                        overall_vol |-> overall.vol_pct,
                        overall_level |-> overall.level,
                        round_figure_credits |-> round_figure_credits,
                        round_figure_total |-> round_figure_total,
                        round_figure_pct |->
                            IF totals.total_credits > 0
                            THEN <<round_figure_total * 100, totals.total_credits>>
                            ELSE <<0, 1>>,
                        expected_months |-> expected_months,
                        num_months |-> IF Len(expected_months) = 0 THEN 1
                                       ELSE Len(expected_months),
                        epf_months |-> Range(ListOf(lists.statutory_by_type, "EPF/KWSP")),
                        socso_months |-> Range(ListOf(lists.statutory_by_type, "SOCSO/PERKESO")),
                        lhdn_months |-> Range(ListOf(lists.statutory_by_type, "LHDN/Tax"))]
    /\ UNCHANGED <<args, i, rp_patterns, all_transactions, missing_accounts,
                   missing_bank_codes, credits_sorted, debits_sorted, used_indices, lists,
                   totals, checks, score, result, env>>

(***************************************************************************)
(* 8. SCORING (lines 544-552)                                              *)
(***************************************************************************)
\* Check giving the points whatever the status
Check_PointsWhateverStatus(id, name, passed, points) ==
    [id |-> id,
     name |-> name,
     status |-> IF passed THEN "PASS" ELSE "FAIL",
     points |-> points]

Check(id, name, passed, points) ==
    [id |-> id,
     name |-> name,
     status |-> IF passed THEN "PASS" ELSE "FAIL",
     points |-> IF passed THEN points ELSE 0]

Scoring ==
    /\ pc = "scoring"
    /\ LET volatility_ok == metrics.overall_level \notin {"HIGH", "EXTREME"}
           round_figure_ok == RatioLeq(metrics.round_figure_pct[1],
                                       metrics.round_figure_pct[2],
                                       ROUND_FIGURE_WARNING_PCT)
           epf_ok == Cardinality(metrics.epf_months) >= Max(4, metrics.num_months - 2)
           cs == << Check(1, "Volatility Level", volatility_ok, 2),
                    Check(2, "Round Figure %", round_figure_ok, 2),
                    Check(3, "EPF Payment", epf_ok, 1),
                    Check(4, "Data Completeness", missing_accounts = <<>>, 0) >>
       IN  /\ checks' = cs
           /\ score' = SumSeq([k \in 1..Len(cs) |-> cs[k].points])
    /\ pc' = "report"
    /\ UNCHANGED <<args, i, rp_patterns, all_transactions, missing_accounts,
                   missing_bank_codes, credits_sorted, debits_sorted, used_indices, lists,
                   totals, metrics, result, error, env>>

(***************************************************************************)
(* 9. FINAL JSON STRUCTURE (lines 554-589)                                 *)
(***************************************************************************)
\* str(n) for n >= 0
RECURSIVE IntToStr(_)
IntToStr(n) ==
    IF n < 10 THEN CharAt(DIGITS, n + 1)
    ELSE IntToStr(n \div 10) \o CharAt(DIGITS, (n % 10) + 1)

\* the readings the system clock can give
ClockReadings == 0..MaxClock

\* strftime('%Y-%m-%dT%H:%M:%SZ') of the reading t
Strftime(t) ==
    "2024-07-01T00:00:" \o CharAt(DIGITS, (t \div 10) + 1)
                        \o CharAt(DIGITS, (t % 10) + 1) \o "Z"

\* the list of lines 582-583: the related-party transactions by date
RelatedPartyDetails ==
    LET refs == lists.related_party_credits \o lists.related_party_debits
        order == SortOrder([k \in 1..Len(refs) |-> <<Txn(refs[k]).date, 0, "">>])
    IN  [k \in 1..Len(refs) |->
            LET t == Txn(refs[order[k]])
            IN  [date |-> t.date,
                 party |-> t.related_party_name,
                 amount |-> IF t.credit > 0 THEN t.credit ELSE t.debit,
                 type |-> IF t.credit > 0 THEN "CREDIT" ELSE "DEBIT"]]

\* the dict of lines 555-587 with the clock reading now
Report(now) ==
    [report_info |->
        [company_name |-> company_name,
         generated_at |-> Strftime(now),
         total_months |-> metrics.num_months,
         accounts_not_provided |->
            [k \in 1..Len(missing_accounts) |->
                missing_accounts[k][1] \o " (" \o IntToStr(missing_accounts[k][2]) \o " txns)"]],
     consolidated |->
        [gross |-> [total_credits |-> totals.total_credits,
                    total_debits |-> totals.total_debits],
         business_turnover |-> [net_credits |-> totals.net_credits,
                                net_debits |-> totals.net_debits],
         exclusions |->
            [credits |-> totals.total_credit_exclusions,
             debits |-> totals.total_debit_exclusions,
             breakdown |->
                [related_party_credits |-> totals.rp_credit_amount,
                 inter_account_credits |->
                    totals.matched_credit_amount + totals.unverified_credit_amount,
                 loan_disbursement |-> totals.loan_disb_amount]]],
     integrity_score |->
        [score |-> score,
         level |-> metrics.overall_level,
         checks |-> checks],
     related_party_transactions |->
        [summary |-> [total_credits |-> totals.rp_credit_amount,
                      total_debits |-> totals.rp_debit_amount],
         details |-> RelatedPartyDetails],
     accounts |-> metrics.accounts]

\* lines 555-589: datetime.now() reads the clock, and the dict is returned
BuildReport ==
    /\ pc = "report"
    /\ \E now \in ClockReadings :
        /\ now >= clock
        /\ clock' = now
        /\ result' = Report(now)
    /\ pc' = "done"
    /\ UNCHANGED <<args, i, rp_patterns, all_transactions, missing_accounts,
                   missing_bank_codes, credits_sorted, debits_sorted, used_indices, lists,
                   totals, metrics, checks, score, error, run, previous>>

(***************************************************************************)
(* The caller (src/app.py lines 73-82) runs the analysis again on the same *)
(* company, keywords, related parties, metadata and data: the mappings may *)
(* enumerate the accounts in another order.                                *)
(***************************************************************************)
RunAgain ==
    /\ pc = "done"
    /\ run < MaxRuns
    /\ run' = run + 1
    /\ previous' = [report |-> result, account_info |-> account_info]
    /\ \E order \in Orderings(Range(account_info)) : account_info' = order
    /\ UNCHANGED <<company_name, company_keywords, related_parties, uploaded_data, clock>>
    /\ pc' = "patterns"
    /\ i' = 1
    /\ rp_patterns' = <<>>
    /\ all_transactions' = <<>>
    /\ missing_accounts' = <<>>
    /\ missing_bank_codes' = <<>>
    /\ credits_sorted' = <<>>
    /\ debits_sorted' = <<>>
    /\ used_indices' = {}
    /\ lists' = EmptyLists
    /\ totals' = <<>>
    /\ metrics' = <<>>
    /\ checks' = <<>>
    /\ score' = 0
    /\ result' = <<>>
    /\ error' = ""

\* one call of process_analysis
Next ==
    \/ GeneratePatterns
    \/ CombineTransactions
    \/ SortTransactions
    \/ MissingBankDetection
    \/ SeparateCreditsDebits
    \/ MatchedTransferPass
    \/ UnverifiedCreditPass
    \/ RelatedPartyCreditPass
    \/ LoanDisbursementPass
    \/ InterestPass
    \/ ReversalPass
    \/ GenuinePass
    \/ RelatedPartyDebitPass
    \/ UnverifiedDebitPass
    \/ StatutoryPass
    \/ SalaryPass
    \/ UtilitiesPass
    \/ BankChargesPass
    \/ SupplierPass
    \/ Totals
    \/ Metrics
    \/ Scoring
    \/ BuildReport

(***************************************************************************)
(* The arguments of the runs that are checked.  The caller (src/app.py     *)
(* lines 54-69) names the uploaded files ACC_1, ACC_2, ... and gives each  *)
(* a metadata entry.  A ledger is a sequence of rows, a row a raw          *)
(* transaction with the account whose file holds it; the runs are made on  *)
(* the selections of at most so many rows of a ledger, each file holding   *)
(* its rows in the order of the ledger.                                    *)
(***************************************************************************)
\* the subsets of S of at most n elements
RECURSIVE SubsetsUpTo(_, _)
SubsetsUpTo(S, n) ==
    IF n = 0 \/ S = {} THEN {{}}
    ELSE LET x == CHOOSE y \in S : TRUE
         IN  SubsetsUpTo(S \ {x}, n)
             \cup {T \cup {x} : T \in SubsetsUpTo(S \ {x}, n - 1)}

\* src/app.py lines 65-69
Info(number) ==
    [bank_name |-> "CIMB", account_number |-> number, classification |-> "PRIMARY"]

MetaEntry(acc_id) == <<acc_id, Info("1234567890")>>

\* the transactions of the file of acc_id when the files hold the rows chosen
FileRows(ledger, chosen, acc_id) ==
    LET rows == SelectSeq(ledger, LAMBDA row : row \in chosen /\ row.account_id = acc_id)
    IN  [k \in 1..Len(rows) |-> rows[k].txn]

Row(acc_id, txn) == [account_id |-> acc_id, txn |-> txn]

Credit(date, description, amount) ==
    [date |-> date, description |-> description, credit |-> amount, debit |-> 0, balance |-> 0]

Debit(date, description, amount) ==
    [date |-> date, description |-> description, credit |-> 0, debit |-> amount, balance |-> 0]

CompanyKeywords == <<"My Co">>

RelatedParties == <<[name |-> "Ali Baba Sdn Bhd", relationship |-> "Director"]>>

(***************************************************************************)
(* Spec: two accounts and a ledger with a row for every rule of the        *)
(* cascade, most of them matching the rule after theirs as well.           *)
(***************************************************************************)
CascadeLedger ==
    << Row("ACC_1", Credit("2024-01-31", "ITB TRF MY CO", 50000)),
       Row("ACC_2", Debit("2024-02-01", "ITB TRF MY CO", 50001)),
       Row("ACC_1", Credit("2024-02-01", "AMB ITB TRF ALI BABA", 700)),
       Row("ACC_2", Debit("2024-02-02", "AMB ITB TRF ALI BABA", 705)),
       Row("ACC_1", Credit("2024-02-01", "DRAWDOWN INTEREST", 5000)),
       Row("ACC_1", Credit("2024-02-01", "HIBAH REV", 20)),
       Row("ACC_1", Credit("2024-02-01", "REVERSAL", 30)),
       Row("ACC_1", Credit("2024-02-01", "SALES INV 12", 12000)),
       Row("ACC_1", Credit("2024-02-01", "payment abc", 10500)),
       Row("ACC_2", Debit("2024-02-01", "AMBANK OWN ACC", 800)),
       Row("ACC_2", Debit("2024-03-01", "KWSP GAJI", 500)),
       Row("ACC_2", Debit("2024-02-01", "GAJI TNB", 600)),
       Row("ACC_2", Debit("2024-02-01", "TNB SERVICE CHARGE", 50)),
       Row("ACC_2", Debit("2024-02-01", "BANK CHARGE", 999)),
       Row("ACC_2", Debit("2024-02-01", "BANK CHARGE", 1000)),
       Row("ACC_1", [date |-> "2024-02-01", description |-> "ADJUSTMENT",
                     credit |-> 0 - 5, debit |-> 0]),
       Row("ACC_1", [date |-> "2024-02-01", description |-> "CONTRA",
                     credit |-> 100, debit |-> 40]) >>

CascadeInputs ==
    {[company_name |-> "MY CO SDN BHD",
      company_keywords |-> CompanyKeywords,
      related_parties |-> RelatedParties,
      account_info |-> <<MetaEntry("ACC_1"), MetaEntry("ACC_2")>>,
      uploaded_data |->
          [acc_id \in {"ACC_1", "ACC_2"} |->
              [transactions |-> FileRows(CascadeLedger, chosen, acc_id),
               monthly_summary |->
                   IF acc_id = "ACC_1"
                   THEN <<[month |-> "2024-02", highest_balance |-> 500,
                           lowest_balance |-> 300]>>
                   ELSE <<>>]]] :
     chosen \in SubsetsUpTo(Range(CascadeLedger), MaxTxns)}

Init == \E in \in CascadeInputs : Start(in)

Spec == Init /\ [][Next]_vars

(***************************************************************************)
(* What the claims speak of.                                               *)
(***************************************************************************)
Transactions == Range(all_transactions)

\* process_analysis has returned
Returned == pc = "done"

\* process_analysis has raised
Raised == pc = "failed"

ExcludedCategories ==
    { "INTER_ACCOUNT_TRANSFER", "INTER_ACCOUNT_TRANSFER_UNVERIFIED", "RELATED_PARTY",
      "LOAN_DISBURSEMENT", "INTEREST_PROFIT_DIVIDEND", "REVERSAL" }

IncludedCategories ==
    { "GENUINE_SALES_COLLECTIONS", "STATUTORY_PAYMENT", "SALARY_WAGES", "UTILITIES",
      "BANK_CHARGES", "SUPPLIER_VENDOR_PAYMENTS" }

\* non-negative amounts, not both zero
WellFormedAmounts(t) == t.credit >= 0 /\ t.debit >= 0 /\ ~(t.credit = 0 /\ t.debit = 0)

\* the entries of all the storage lists, a matched transfer counting for its two
\* transactions
StoredEntries ==
    2 * Len(lists.matched_transfers)
    + Len(lists.unverified_credit_transfers) + Len(lists.unverified_debit_transfers)
    + Len(lists.related_party_credits) + Len(lists.related_party_debits)
    + Len(lists.loan_disbursements) + Len(lists.interest_credits) + Len(lists.reversals)
    + Len(lists.genuine_credits) + Len(lists.statutory_payments) + Len(lists.salary_wages)
    + Len(lists.utilities) + Len(lists.bank_charges) + Len(lists.supplier_payments)

\* C1: when process_analysis returns, every retained transaction with non-negative
\* amounts that are not both zero has one category, which is not None, its
\* exclude_from_turnover is true exactly for the six excluding categories, and it
\* is stored in one storage list.
C1_OneCategoryAndConsistentExclusion ==
    Returned =>
        /\ \A t \in Transactions :
              WellFormedAmounts(t) =>
                  /\ t.category \in ExcludedCategories \cup IncludedCategories
                  /\ t.exclude_from_turnover <=> t.category \in ExcludedCategories
        /\ StoredEntries = Cardinality({t \in Transactions : t.category # NoCategory})

\* C1 witness: a returned run with an excluded transaction, one that is not, and a
\* transaction with a negative amount, which no loop categorizes
C1_Witness ==
    /\ Returned
    /\ \E t \in Transactions : t.category = "RELATED_PARTY" /\ t.exclude_from_turnover
    /\ \E t \in Transactions : t.category = "STATUTORY_PAYMENT" /\ ~t.exclude_from_turnover
    /\ \E t \in Transactions : t.credit < 0 /\ t.category = NoCategory

\* the sum of the positive amounts of the side over the transactions of ts
SideSum(side, ts) ==
    SumSeq([k \in 1..Len(all_transactions) |->
               IF all_transactions[k][side] > 0 /\ all_transactions[k] \in ts
               THEN all_transactions[k][side] ELSE 0])

ExcludedTransactions == {t \in Transactions : t.exclude_from_turnover}

\* every transaction has one side: non-negative amounts, one of them zero
OneSided == \A t \in Transactions : t.credit >= 0 /\ t.debit >= 0 /\ (t.credit = 0 \/ t.debit = 0)

\* C3: on each side the reported exclusion total is the sum of the amounts of the
\* side's transactions with exclude_from_turnover, net turnover is the sum of the
\* amounts of those without, and the matched amount used for the debit exclusions
\* is the sum of the matched debits' own amounts.  (Stated for runs whose
\* transactions each have one side.)
C3_ExclusionsAddUp ==
    (Returned /\ OneSided) =>
        /\ totals.total_credit_exclusions = SideSum("credit", ExcludedTransactions)
        /\ totals.total_debit_exclusions = SideSum("debit", ExcludedTransactions)
        /\ totals.net_credits = SideSum("credit", Transactions \ ExcludedTransactions)
        /\ totals.net_debits = SideSum("debit", Transactions \ ExcludedTransactions)
        /\ totals.matched_debit_amount =
               SideSum("debit", {t \in Transactions : t.category = "INTER_ACCOUNT_TRANSFER"})

\* the credits that count as round figure by the claim
RoundFigureCredits ==
    {t \in Transactions :
        /\ t.credit > 0
        /\ t.category = "GENUINE_SALES_COLLECTIONS"
        /\ t.credit >= 10000
        /\ t.credit % 1000 = 0}

\* C8: the credits counted as round figure are those whose final category is
\* GENUINE_SALES_COLLECTIONS and whose amount is at least 10 000 and a multiple of
\* 1000; the percentage is their total over gross credits times 100, and 0 when
\* gross credits are 0.
C8_RoundFigure ==
    Returned =>
        LET total == SideSum("credit", RoundFigureCredits)
            gross == SideSum("credit", Transactions)
        IN  /\ Len(metrics.round_figure_credits) = Cardinality(RoundFigureCredits)
            /\ \A t \in RoundFigureCredits :
                  \E e \in Range(metrics.round_figure_credits) :
                      e.amount = t.credit /\ e.description = t.description /\ e.date = t.date
            /\ metrics.round_figure_total = total
            /\ IF gross = 0 THEN metrics.round_figure_pct[1] = 0
               ELSE metrics.round_figure_pct = <<100 * total, gross>>

\* C8 witness: a returned run with a round-figure credit and a genuine credit of
\* 10 000 or more that is no multiple of 1000
C8_Witness ==
    /\ Returned
    /\ RoundFigureCredits # {}
    /\ \E t \in Transactions :
          /\ t.category = "GENUINE_SALES_COLLECTIONS"
          /\ t.credit >= 10000
          /\ t.credit % 1000 # 0
    /\ metrics.round_figure_pct[1] > 0

\* the condition of an unverified transfer, in the claim's words: the description
\* names a bank that is missing from the provided accounts and holds an
\* inter-account marker or a company keyword
NamesMissingBank(t) ==
    /\ \E code \in Range(missing_bank_codes) : Contains(code, Upper(t.description))
    /\ \/ \E k \in 1..Len(INTER_ACCOUNT_MARKERS) :
              Contains(INTER_ACCOUNT_MARKERS[k], Upper(t.description))
       \/ \E k \in 1..Len(company_keywords) :
              Contains(Upper(company_keywords[k]), Upper(t.description))

\* the transaction is in the list of unverified transfers of its side
RecordedUnverified(t, side) ==
    \E e \in Range(IF side = "credit" THEN lists.unverified_credit_transfers
                   ELSE lists.unverified_debit_transfers) :
        /\ e.date = t.date
        /\ e.account = t.account_id
        /\ e.amount = t[side]
        /\ e.description = t.description
        /\ e.type = (IF side = "credit" THEN "CREDIT" ELSE "DEBIT")

\* the transaction was not used by the matched pass
UnusedAfterMatched(t) == t.category # "INTER_ACCOUNT_TRANSFER"

\* the side whose loops categorize the transaction
SideOf(t) == IF t.credit > 0 THEN "credit" ELSE "debit"

\* C10 as the specification states it: the unverified pass is priority 2 on both
\* sides, so every credit or debit still unused after the matched pass that meets
\* its condition ends INTER_ACCOUNT_TRANSFER_UNVERIFIED, excluded and recorded.
C10_UnverifiedIsPriorityTwo ==
    Returned =>
        \A t \in Transactions :
            (WellFormedAmounts(t) /\ UnusedAfterMatched(t) /\ NamesMissingBank(t)) =>
                /\ t.category = "INTER_ACCOUNT_TRANSFER_UNVERIFIED"
                /\ t.exclude_from_turnover
                /\ RecordedUnverified(t, SideOf(t))

\* C10, amended: on the credit side the unverified pass is priority 2, before every
\* rule of the cascade; on the debit side it comes after the related-party pass, so
\* a debit that meets the condition ends INTER_ACCOUNT_TRANSFER_UNVERIFIED only when
\* no related-party pattern matches it, and RELATED_PARTY otherwise.  Either way
\* the transaction is excluded from turnover.
C10_UnverifiedBeforeCascadeOnCredits ==
    Returned =>
        \A t \in Transactions :
            (WellFormedAmounts(t) /\ UnusedAfterMatched(t) /\ NamesMissingBank(t)) =>
                /\ t.exclude_from_turnover
                /\ IF SideOf(t) = "debit" /\ check_related_party(t.description, rp_patterns) # <<>>
                   THEN /\ t.category = "RELATED_PARTY"
                        /\ ~RecordedUnverified(t, "debit")
                   ELSE /\ t.category = "INTER_ACCOUNT_TRANSFER_UNVERIFIED"
                        /\ RecordedUnverified(t, SideOf(t))

\* C10 witness: a returned run where a credit and a debit both meet the condition
\* and match a related party: the credit is an unverified transfer, the debit a
\* related-party transaction
C10_Witness ==
    /\ Returned
    /\ \E t \in Transactions :
          /\ t.credit > 0
          /\ NamesMissingBank(t)
          /\ check_related_party(t.description, rp_patterns) # <<>>
          /\ t.category = "INTER_ACCOUNT_TRANSFER_UNVERIFIED"
    /\ \E t \in Transactions :
          /\ t.debit > 0
          /\ NamesMissingBank(t)
          /\ check_related_party(t.description, rp_patterns) # <<>>
          /\ t.category = "RELATED_PARTY"

(***************************************************************************)
(* SpecTransfers: the matched pass on credits and debits of two accounts   *)
(* that differ in account, amount (by 0, 1, 2), day (by 0, 1, 2, across    *)
(* the end of a month) and marker, two credits competing for a debit, and  *)
(* a row with an amount on both sides.                                     *)
(***************************************************************************)
MaxTransfers == 4

\* consecutive days of the calendar
TransferDays == << "2024-01-31", "2024-02-01", "2024-02-02" >>

TransferLedger ==
    << Row("ACC_1", Credit(TransferDays[1], "ITB TRF", 1000)),
       Row("ACC_1", Credit(TransferDays[1], "TR TO C/A", 1001)),
       Row("ACC_2", Debit(TransferDays[2], "ITB TRF", 1000)),
       Row("ACC_2", Debit(TransferDays[2], "PAYMENT", 1002)),
       Row("ACC_2", Debit(TransferDays[3], "ITB TRF", 1000)),
       Row("ACC_1", Debit(TransferDays[1], "ITB TRF", 1000)),
       Row("ACC_2", Credit(TransferDays[2], "PAYMENT", 50000)),
       Row("ACC_1", Debit(TransferDays[3], "PAYMENT", 49999)),
       Row("ACC_2", Credit(TransferDays[2], "PAYMENT", 49999)),
       Row("ACC_1", [date |-> TransferDays[2], description |-> "ITB TRF",
                     credit |-> 1000, debit |-> 1000]) >>

TransferInputs ==
    {[company_name |-> "MY CO SDN BHD",
      company_keywords |-> CompanyKeywords,
      related_parties |-> RelatedParties,
      account_info |-> <<MetaEntry("ACC_1"), MetaEntry("ACC_2")>>,
      uploaded_data |->
          [acc_id \in {"ACC_1", "ACC_2"} |->
              [transactions |-> FileRows(TransferLedger, chosen, acc_id),
               monthly_summary |-> <<>>]]] :
     chosen \in SubsetsUpTo(Range(TransferLedger), MaxTransfers)}

InitTransfers == \E in \in TransferInputs : Start(in)

SpecTransfers == InitTransfers /\ [][Next]_vars

(***************************************************************************)
(* SpecIngest: files and metadata that do not cover the same accounts, and *)
(* records that lack fields or hold a date that is no calendar date.       *)
(***************************************************************************)
MaxRecords == 3

IngestLedger ==
    << Row("ACC_1", Credit("2024-02-01", "ITB TRF", 1000)),
       Row("ACC_2", Debit("2024-02-01", "ITB TRF", 1000)),
       Row("ACC_2", Debit("2024-02-30", "ITB TRF", 1000)),
       Row("ACC_1", Credit("01/02/2024", "SALES", 70)),
       Row("ACC_1", [description |-> "SALES", credit |-> 50, debit |-> 0, balance |-> 0]),
       Row("ACC_1", [date |-> "2024-02-01", credit |-> 60, debit |-> 0, balance |-> 0]),
       Row("ACC_1", [description |-> "NOTE"]),
       Row("ACC_1", [date |-> "2024-02-01", description |-> "FEE", debit |-> 5]),
       Row("ACC_3", Credit("2024-02-01", "ITB TRF", 1000)),
       Row("ACC_3", [description |-> "X", debit |-> 9]),
       Row("ACC_1", [date |-> "2024-02-01", credit |-> 0, debit |-> 0, balance |-> 7]),
       Row("ACC_2", Debit("2024-02-30", "RENT", 300)) >>

\* the accounts with a metadata entry and the accounts with a file
AccountSets ==
    { <<{"ACC_1", "ACC_2"}, {"ACC_1", "ACC_2"}>>,
      <<{"ACC_1", "ACC_2"}, {"ACC_1", "ACC_2", "ACC_3"}>>,
      <<{"ACC_1", "ACC_2", "ACC_3"}, {"ACC_1", "ACC_2"}>>,
      <<{"ACC_1", "ACC_2"}, {"ACC_1", "ACC_3"}>> }

IngestInputs ==
    {[company_name |-> "MY CO SDN BHD",
      company_keywords |-> CompanyKeywords,
      related_parties |-> RelatedParties,
      account_info |-> [k \in 1..Cardinality(sets[1]) |->
                           MetaEntry(SortedStrings(sets[1])[k])],
      uploaded_data |->
          [acc_id \in sets[2] |->
              [transactions |-> FileRows(IngestLedger, chosen, acc_id),
               monthly_summary |->
                   <<[month |-> "2024-02", highest_balance |-> 500,
                      lowest_balance |-> 300]>>]]] :
     sets \in AccountSets, chosen \in SubsetsUpTo(Range(IngestLedger), MaxRecords)}

InitIngest == \E in \in IngestInputs : Start(in)

SpecIngest == InitIngest /\ [][Next]_vars

(***************************************************************************)
(* SpecVolatility: monthly summaries with balances on and next to the      *)
(* thresholds, equal, of sum zero, negative and absent; ACC_3 has a file   *)
(* and no metadata entry.                                                  *)
(***************************************************************************)
MaxMonths == 3

Month(acc_id, month, high, low) ==
    [account_id |-> acc_id,
     txn |-> [month |-> month, highest_balance |-> high, lowest_balance |-> low]]

MonthLedger ==
    << Month("ACC_1", "2024-01", 500, 300),
       Month("ACC_1", "2024-02", 501, 300),
       Month("ACC_1", "2024-03", 300, 100),
       Month("ACC_2", "2024-01", 301, 100),
       Month("ACC_2", "2024-02", 700, 0),
       Month("ACC_2", "2024-03", 300, 0 - 100),
       Month("ACC_1", "2024-04", 100, 0 - 100),
       Month("ACC_1", "2024-05", 400, 400),
       Month("ACC_2", "2024-04", 0 - 100, 0 - 300),
       Month("ACC_2", "2024-05", 0, 0),
       Month("ACC_3", "2024-01", 9000, 0 - 50),
       [account_id |-> "ACC_1", txn |-> [month |-> "2024-06"]],
       Month("ACC_2", "2024-06", 100, 300) >>

VolatilityInputs ==
    {[company_name |-> "MY CO SDN BHD",
      company_keywords |-> CompanyKeywords,
      related_parties |-> RelatedParties,
      account_info |-> <<MetaEntry("ACC_1"), MetaEntry("ACC_2")>>,
      uploaded_data |->
          [acc_id \in {"ACC_1", "ACC_2", "ACC_3"} |->
              [transactions |-> <<>>,
               monthly_summary |-> FileRows(MonthLedger, chosen, acc_id)]]] :
     chosen \in SubsetsUpTo(Range(MonthLedger), MaxMonths)}

InitVolatility == \E in \in VolatilityInputs : Start(in)

SpecVolatility == InitVolatility /\ [][Next]_vars

(***************************************************************************)
(* SpecTwice: the caller runs the analysis and runs it again; the ledger   *)
(* has transactions of equal key in the two accounts and a description     *)
(* with two missing banks.                                                 *)
(***************************************************************************)
MaxRows == 3

TwiceLedger ==
    << Row("ACC_1", Credit("2024-02-01", "ITB TRF", 1000)),
       Row("ACC_2", Credit("2024-02-01", "ITB TRF", 1000)),
       Row("ACC_2", Debit("2024-02-01", "ITB TRF", 1000)),
       Row("ACC_1", Debit("2024-02-01", "ITB TRF", 1000)),
       Row("ACC_1", Credit("2024-02-01", "MBB ALI BABA", 90)),
       Row("ACC_2", Credit("2024-02-01", "ALI BABA", 90)),
       Row("ACC_2", Debit("2024-02-02", "AMBANK HLB OWN ACC", 80)) >>

TwiceInputs ==
    {[company_name |-> "MY CO SDN BHD",
      company_keywords |-> CompanyKeywords,
      related_parties |-> RelatedParties,
      account_info |-> order,
      uploaded_data |->
          [acc_id \in {"ACC_1", "ACC_2"} |->
              [transactions |-> FileRows(TwiceLedger, chosen, acc_id),
               monthly_summary |->
                   <<[month |-> "2024-02", highest_balance |-> 500,
                      lowest_balance |-> 300]>>]]] :
     order \in Orderings({MetaEntry("ACC_1"), MetaEntry("ACC_2")}),
     chosen \in SubsetsUpTo(Range(TwiceLedger), MaxRows)}

InitTwice == \E in \in TwiceInputs : Start(in)

\* a call of process_analysis, or the caller calling again
NextTwice ==
    \/ Next
    \/ RunAgain

SpecTwice == InitTwice /\ [][NextTwice]_vars

\* the day of the calendar a date of TransferDays is
TransferDay(date) == CHOOSE k \in 1..Len(TransferDays) : TransferDays[k] = date

\* the sorted indices of a matched transfer
PairIndices(m) == {m.credit_idx, m.debit_idx}

\* C2: in matched_transfers no sorted index occurs in more than one pair, neither
\* as credit_idx nor as debit_idx, and the credit and the debit of every pair are
\* of different accounts, with amounts at most 1 apart and dates at most 1 day
\* apart.
C2_MatchedPairsDisjointAndWithinTolerance ==
    LET pairs == lists.matched_transfers
    IN  /\ \A a, b \in 1..Len(pairs) :
              a # b => PairIndices(pairs[a]) \cap PairIndices(pairs[b]) = {}
        /\ \A a \in 1..Len(pairs) :
              LET c == Txn(pairs[a].credit_idx)
                  d == Txn(pairs[a].debit_idx)
              IN  /\ pairs[a].credit_idx # pairs[a].debit_idx
                  /\ c.account_id # d.account_id
                  /\ c.credit - d.debit \in {0 - 1, 0, 1}
                  /\ TransferDay(c.date) - TransferDay(d.date) \in {0 - 1, 0, 1}

\* C2 witness: a returned run with a pair whose amounts are 1 apart and whose dates
\* are 1 day apart, and a credit left unmatched that the debit of the pair would
\* have fitted
C2_Witness ==
    /\ Returned
    /\ \E a \in 1..Len(lists.matched_transfers) :
          LET c == Txn(lists.matched_transfers[a].credit_idx)
              d == Txn(lists.matched_transfers[a].debit_idx)
          IN  /\ c.credit - d.debit = 1
              /\ TransferDay(d.date) - TransferDay(c.date) = 1
              /\ \E t \in Transactions :
                    /\ t.category # "INTER_ACCOUNT_TRANSFER"
                    /\ t.credit = d.debit
                    /\ t.account_id # d.account_id
                    /\ has_inter_account_marker(Upper(t.description))
                    /\ TransferDay(d.date) - TransferDay(t.date) = 1

\* the report without the reading of the clock
WithoutTimestamp(report) == [report EXCEPT !.report_info.generated_at = ""]

\* C4 as the specification states it: a second run on the same arguments, however
\* the mappings enumerate the accounts, returns a report identical to the first.
C4_IdenticalReports ==
    (Returned /\ run > 1) => result = previous.report

\* C4, amended: a second run on the same arguments, however the mappings enumerate
\* the accounts, returns as the first did, and its report is identical to the
\* first but for report_info.generated_at, which is the time of the run.
C4_IdenticalButForTimestamp ==
    /\ run > 1 => ~Raised
    /\ (Returned /\ run > 1) => WithoutTimestamp(result) = WithoutTimestamp(previous.report)

\* C4 witness: a second run that has returned, with the accounts enumerated in
\* another order than in the first, a matched transfer, and generated_at differing
C4_Witness ==
    /\ Returned
    /\ run > 1
    /\ account_info # previous.account_info
    /\ lists.matched_transfers # <<>>
    /\ result.report_info.generated_at # previous.report.report_info.generated_at

\* the accounts with a metadata entry and a file
IncludedIds == AccountIds \cap DOMAIN uploaded_data

\* the records of the file of an account
RawRecords(acc_id) == Get(uploaded_data[acc_id], "transactions", <<>>)

\* the records of the files of the included accounts
IncludedRecords == UNION {Range(RawRecords(acc_id)) : acc_id \in IncludedIds}

LacksField(r) == "date" \notin DOMAIN r \/ "description" \notin DOMAIN r

\* the record has a credit or a debit that is not zero
HasAmount(r) == Get(r, "credit", 0) # 0 \/ Get(r, "debit", 0) # 0

\* the run is in its first two steps or has raised: it has got nowhere, and
\* nothing is returned
NoReport == pc \in {"patterns", "combine", "failed"} /\ result = <<>>

\* C5 as the specification states it: a record of an included account that lacks
\* date or description fails the run, whatever its credit and debit.
C5_AnyIncompleteRecordFails ==
    (\E r \in IncludedRecords : LacksField(r)) => NoReport

\* C5, amended: a record of an included account that lacks date or description
\* fails the run when its credit or its debit is not zero; a record whose credit
\* and debit are both zero or absent is dropped before its fields are read, and
\* no KeyError comes of it.
C5_IncompleteRecordWithAmountFails ==
    /\ (\E r \in IncludedRecords : LacksField(r) /\ HasAmount(r)) => NoReport
    /\ (Raised /\ error = "KeyError") =>
           \E r \in IncludedRecords : LacksField(r) /\ HasAmount(r)

\* C5 witness: the run has raised KeyError on a record with an amount and no date,
\* the files holding a record without date and without amount as well
C5_Witness ==
    /\ Raised
    /\ error = "KeyError"
    /\ \E r \in IncludedRecords : "date" \notin DOMAIN r /\ HasAmount(r)
    /\ \E r \in IncludedRecords : "date" \notin DOMAIN r /\ ~HasAmount(r)

\* the string is no YYYY-MM-DD date of the calendar
Malformed(date) == ParseDate(date) = <<>>

\* C6: a retained transaction with a date that is no YYYY-MM-DD date of the
\* calendar aborts the run: no report is returned from a collection that holds a
\* malformed date.
C6_NoReportWithMalformedDate ==
    Returned => \A t \in Transactions : ~Malformed(t.date)

\* the transactions in the order of their idx, the order of ingestion
ByIngestion ==
    [k \in 1..Len(all_transactions) |-> CHOOSE t \in Transactions : t.idx = k - 1]

\* what the claim has a record normalized to
Normalized(r) ==
    [date |-> r.date,
     description |-> r.description,
     credit |-> Get(r, "credit", 0),
     debit |-> Get(r, "debit", 0),
     balance |-> Get(r, "balance", 0)]

\* sum of the positive amounts of a side over the records of the included accounts
RECURSIVE RawSideSum(_, _)
RawSideSum(accs, side) ==
    IF accs = {} THEN 0
    ELSE LET acc_id == CHOOSE a \in accs : TRUE
             rows == RawRecords(acc_id)
         IN  SumSeq([k \in 1..Len(rows) |->
                        IF Get(rows[k], side, 0) > 0 THEN Get(rows[k], side, 0) ELSE 0])
             + RawSideSum(accs \ {acc_id}, side)

\* C7: an account with a metadata entry and no file, or with a file and no
\* metadata entry, is left out without failing the run: no transaction of it is in
\* the normalized collection, the totals or the matching, it is not in the
\* report's accounts, and a run raises only for a record of an included account;
\* the records of the included accounts enter with an absent credit, debit or
\* balance as zero.
C7_UnpairedAccountsAreSkipped ==
    /\ \A t \in Transactions : t.account_id \in IncludedIds
    /\ \A m \in Range(lists.matched_transfers) :
          m.from_account \in IncludedIds /\ m.to_account \in IncludedIds
    /\ Raised =>
          \E r \in IncludedRecords :
              HasAmount(r) /\ (LacksField(r) \/ Malformed(r.date))
    /\ pc \notin {"patterns", "combine", "failed"} =>
          \A acc_id \in IncludedIds :
              LET kept == SelectSeq(RawRecords(acc_id), HasAmount)
                  txns == SelectSeq(ByIngestion, LAMBDA t : t.account_id = acc_id)
              IN  /\ Len(txns) = Len(kept)
                  /\ \A k \in 1..Len(kept) :
                        [f \in DOMAIN Normalized(kept[k]) |-> txns[k][f]] = Normalized(kept[k])
    /\ Returned =>
          /\ {a.account_id : a \in Range(result.accounts)} = IncludedIds
          /\ Len(result.accounts) = Cardinality(IncludedIds)
          /\ result.consolidated.gross.total_credits = RawSideSum(IncludedIds, "credit")
          /\ result.consolidated.gross.total_debits = RawSideSum(IncludedIds, "debit")

\* C7 witness: a returned run with a metadata entry without file, and a file
\* without metadata entry that holds a record with an amount and no date, and an
\* included record without credit and balance
C7_Witness ==
    /\ Returned
    /\ AccountIds \ DOMAIN uploaded_data # {}
    /\ \E acc_id \in DOMAIN uploaded_data \ AccountIds :
          \E r \in Range(RawRecords(acc_id)) : LacksField(r) /\ HasAmount(r)
    /\ \E r \in IncludedRecords :
          /\ HasAmount(r)
          /\ "credit" \notin DOMAIN r
          /\ "balance" \notin DOMAIN r

\* the level the claim gives to high and low: with s = high + low the sign of the
\* average, v <= 50 is 4 (high - low) <= s for s > 0 and 4 (high - low) >= s for
\* s < 0, and so for 100 and 200
ClaimedLevel(high, low) ==
    LET swing == high - low
        s == high + low
        AtMost(k) == IF s > 0 THEN 200 * swing <= k * s ELSE 200 * swing >= k * s
    IN  IF high = low \/ s = 0 THEN "LOW"
        ELSE IF AtMost(50) THEN "LOW"
        ELSE IF AtMost(100) THEN "MODERATE"
        ELSE IF AtMost(200) THEN "HIGH"
        ELSE "EXTREME"

\* highest_balance or lowest_balance of the account-months of the included accounts
AccountMonthBalances(field) ==
    UNION {{Get(m, field, 0) : m \in Range(MonthlySummary(acc_id))} : acc_id \in IncludedIds}

\* C9: calculate_volatility gives (0, LOW) for high = low and for high + low = 0,
\* and else LOW, MODERATE, HIGH or EXTREME as v = (high - low) / ((high + low) / 2)
\* * 100 is at most 50, at most 100, at most 200 or more; every account-month has
\* the level of its balances, and the overall level is that of the maximum
\* highest_balance and the minimum lowest_balance over all account-months.
C9_VolatilityLevels ==
    pc \in {"scoring", "report", "done"} =>
        /\ \A a \in Range(metrics.accounts) :
              \A k \in 1..Len(a.monthly_summary) :
                  LET m == MonthlySummary(a.account_id)[k]
                  IN  a.monthly_summary[k].volatility_level =
                          ClaimedLevel(Get(m, "highest_balance", 0), Get(m, "lowest_balance", 0))
        /\ LET highs == AccountMonthBalances("highest_balance")
               lows == AccountMonthBalances("lowest_balance")
               high == CHOOSE h \in highs : \A x \in highs : x <= h
               low == CHOOSE l \in lows : \A x \in lows : l <= x
           IN  IF highs = {}
               THEN metrics.overall_level = "LOW" /\ metrics.overall_vol = 0
               ELSE /\ metrics.overall_level = ClaimedLevel(high, low)
                    /\ (high = low \/ high + low = 0) => metrics.overall_vol = 0
        /\ Returned => result.integrity_score.level = metrics.overall_level

\* C9 witness: a report with a month of v = 50, which is LOW, a month of high +
\* low = 0, which is LOW, and the overall level EXTREME, from the high of the one
\* and the low of the other
C9_Witness ==
    /\ Returned
    /\ \E a \in Range(result.accounts) :
          /\ \E k \in 1..Len(a.monthly_summary) :
                /\ Get(MonthlySummary(a.account_id)[k], "highest_balance", 0) = 500
                /\ Get(MonthlySummary(a.account_id)[k], "lowest_balance", 0) = 300
                /\ a.monthly_summary[k].volatility_level = "LOW"
          /\ \E k \in 1..Len(a.monthly_summary) :
                /\ Get(MonthlySummary(a.account_id)[k], "highest_balance", 0) = 100
                /\ Get(MonthlySummary(a.account_id)[k], "lowest_balance", 0) = 0 - 100
                /\ a.monthly_summary[k].volatility_level = "LOW"
    /\ result.integrity_score.level = "EXTREME"

(***************************************************************************)
(* SpecRules: the cascade on credits and debits of one account whose       *)
(* descriptions meet two consecutive rules of their side, a bank charge on *)
(* either side of 1000, and a credit that meets the condition of the       *)
(* unverified pass as well as a rule of the cascade.                       *)
(***************************************************************************)
MaxRules == 3

RuleLedger ==
    << Row("ACC_1", Credit("2024-02-01", "ALI BABA DISB", 900)),
       Row("ACC_1", Credit("2024-02-01", "DRAWDOWN INTEREST", 5000)),
       Row("ACC_1", Credit("2024-02-01", "HIBAH REV", 20)),
       Row("ACC_1", Credit("2024-02-01", "VOID", 30)),
       Row("ACC_1", Credit("2024-02-01", "SALES INV 12", 1200)),
       Row("ACC_1", Credit("2024-02-01", "MBB OWN ACC DISB", 400)),
       Row("ACC_1", Debit("2024-02-01", "ALI BABA KWSP", 100)),
       Row("ACC_1", Debit("2024-02-01", "KWSP GAJI", 500)),
       Row("ACC_1", Debit("2024-02-01", "GAJI TNB", 600)),
       Row("ACC_1", Debit("2024-02-01", "COMMISSION", 10)),
       Row("ACC_1", Debit("2024-02-01", "TNB FEE", 50)),
       Row("ACC_1", Debit("2024-02-01", "ADMIN FEE", 999)),
       Row("ACC_1", Debit("2024-02-01", "ADMIN FEE", 1000)),
       Row("ACC_1", Debit("2024-02-01", "RENTAL", 2500)) >>

RuleInputs ==
    {[company_name |-> "MY CO SDN BHD",
      company_keywords |-> CompanyKeywords,
      related_parties |-> RelatedParties,
      account_info |-> <<MetaEntry("ACC_1")>>,
      uploaded_data |->
          [acc_id \in {"ACC_1"} |->
              [transactions |-> FileRows(RuleLedger, chosen, acc_id),
               monthly_summary |-> <<>>]]] :
     chosen \in SubsetsUpTo(Range(RuleLedger), MaxRules)}

InitRules == \E in \in RuleInputs : Start(in)

SpecRules == InitRules /\ [][Next]_vars

\* a keyword of the list occurs in the description
Mentions(keywords, t) ==
    \E k \in 1..Len(keywords) : Contains(keywords[k], Upper(t.description))

\* a keyword of one of the statutory types occurs in the description
MentionsStatutory(t) ==
    \E s \in 1..Len(STATUTORY_KEYWORDS) : Mentions(STATUTORY_KEYWORDS[s][2], t)

\* the description matches a pattern of a related party
MentionsRelatedParty(t) == check_related_party(t.description, rp_patterns) # <<>>

\* the category of the first rule of the credit order the transaction meets
ClaimedCreditCategory(t) ==
    IF MentionsRelatedParty(t) THEN "RELATED_PARTY"
    ELSE IF Mentions(DISBURSEMENT_KEYWORDS, t) THEN "LOAN_DISBURSEMENT"
    ELSE IF Mentions(INTEREST_KEYWORDS, t) THEN "INTEREST_PROFIT_DIVIDEND"
    ELSE IF Mentions(REVERSAL_KEYWORDS, t) THEN "REVERSAL"
    ELSE "GENUINE_SALES_COLLECTIONS"

\* the category of the first rule of the debit order the transaction meets
ClaimedDebitCategory(t) ==
    IF MentionsRelatedParty(t) THEN "RELATED_PARTY"
    ELSE IF MentionsStatutory(t) THEN "STATUTORY_PAYMENT"
    ELSE IF Mentions(SALARY_KEYWORDS, t) THEN "SALARY_WAGES"
    ELSE IF Mentions(UTILITY_KEYWORDS, t) THEN "UTILITIES"
    ELSE IF Mentions(BANK_CHARGE_KEYWORDS, t) /\ t.debit < 1000 THEN "BANK_CHARGES"
    ELSE "SUPPLIER_VENDOR_PAYMENTS"

\* a credit or a debit: one amount is positive and the other is zero
HasOneSide(t) == (t.credit > 0 /\ t.debit = 0) \/ (t.debit > 0 /\ t.credit = 0)

\* the transaction is taken by the matched pass or meets the condition of the
\* unverified pass
QualifiesForTransferPass(t) == t.category = "INTER_ACCOUNT_TRANSFER" \/ NamesMissingBank(t)

\* C11: when process_analysis returns, a credit or debit that qualifies for neither
\* transfer pass has the category of the first rule, in the priority order of its
\* side, that its description meets (a bank charge only with an amount below 1000),
\* and the default category of its side when it meets none.
C11_FirstRuleWins ==
    Returned =>
        \A t \in Transactions :
            (HasOneSide(t) /\ ~QualifiesForTransferPass(t)) =>
                t.category = (IF t.credit > 0 THEN ClaimedCreditCategory(t)
                              ELSE ClaimedDebitCategory(t))

\* C11 witness: a returned run with a related-party credit that names a
\* disbursement, a statutory debit that names a salary, and a debit of 1000 with a
\* bank-charge keyword that is a supplier payment
C11_Witness ==
    /\ Returned
    /\ \E t \in Transactions :
          /\ t.credit > 0
          /\ ~QualifiesForTransferPass(t)
          /\ Mentions(DISBURSEMENT_KEYWORDS, t)
          /\ t.category = "RELATED_PARTY"
    /\ \E t \in Transactions :
          /\ t.debit > 0
          /\ Mentions(SALARY_KEYWORDS, t)
          /\ t.category = "STATUTORY_PAYMENT"
    /\ \E t \in Transactions :
          /\ t.debit >= 1000
          /\ Mentions(BANK_CHARGE_KEYWORDS, t)
          /\ t.category = "SUPPLIER_VENDOR_PAYMENTS"

\* the order of the claim on the transactions of a side: date ascending, amount
\* descending, description ascending
InClaimedOrder(a, b, side) ==
    \/ StrLess(a.date, b.date)
    \/ /\ a.date = b.date
       /\ \/ a[side] > b[side]
          \/ /\ a[side] = b[side]
             /\ ~StrLess(b.description, a.description)

\* an inter-account marker or a company keyword occurs in the description
MentionsTransfer(t) ==
    \/ Mentions(INTER_ACCOUNT_MARKERS, t)
    \/ \E k \in 1..Len(company_keywords) :
           Contains(Upper(company_keywords[k]), Upper(t.description))

\* the debit d is one the credit c can be paired with at its turn
Pairable(c, d) ==
    /\ d.sorted_idx \notin used_indices
    /\ d.account_id # c.account_id
    /\ c.credit - d.debit \in {0 - 1, 0, 1}
    /\ TransferDay(c.date) - TransferDay(d.date) \in {0 - 1, 0, 1}
    /\ (MentionsTransfer(c) \/ MentionsTransfer(d) \/ c.credit >= 50000)

\* the positions in debits_sorted of the debits the credit c can be paired with
PairablePositions(c) ==
    {j \in 1..Len(debits_sorted) : Pairable(c, Txn(debits_sorted[j]))}

\* the turn of the credit at position i of credits_sorted: a credit that is used is
\* passed over, one with no debit to pair with is left as it is, and any other is
\* paired with the first debit it can be paired with
GreedyTurn ==
    (pc = "matched" /\ i <= Len(credits_sorted)) =>
        LET c == Txn(credits_sorted[i])
            js == PairablePositions(c)
        IN  IF c.sorted_idx \in used_indices \/ js = {}
            THEN /\ used_indices' = used_indices
                 /\ lists'.matched_transfers = lists.matched_transfers
                 /\ i' = i + 1
            ELSE LET d == Txn(debits_sorted[CHOOSE j \in js : \A k \in js : j <= k])
                 IN  /\ used_indices' = used_indices \cup {c.sorted_idx, d.sorted_idx}
                     /\ Len(lists'.matched_transfers) = Len(lists.matched_transfers) + 1
                     /\ PairIndices(lists'.matched_transfers[Len(lists'.matched_transfers)])
                            = {c.sorted_idx, d.sorted_idx}
                     /\ i' = i + 1

\* credits_sorted and debits_sorted are in the order of the claim
VisitedInOrder ==
    pc \notin {"patterns", "combine", "sort", "missing_banks", "separate", "failed"} =>
        /\ \A k \in 1..(Len(credits_sorted) - 1) :
              InClaimedOrder(Txn(credits_sorted[k]), Txn(credits_sorted[k + 1]), "credit")
        /\ \A k \in 1..(Len(debits_sorted) - 1) :
              InClaimedOrder(Txn(debits_sorted[k]), Txn(debits_sorted[k + 1]), "debit")

\* C12: the matched pass visits the credits in the order (date ascending, amount
\* descending, description ascending), one credit a step, and pairs each unused
\* credit with the first debit of the same order of the debits that is unused, of
\* another account, within 1 in amount and 1 day in date, and has a marker or
\* company keyword in either description or a credit of at least 50000; the credit
\* is left unmatched only when there is no such debit.
C12_GreedyInSortOrder == [](VisitedInOrder) /\ [][GreedyTurn]_vars

\* C12 witness: the matched pass has paired a credit with a debit although a later
\* debit, still unused, would have fitted it too, and has left another credit
\* unmatched
C12_Witness ==
    /\ pc = "unverified_credit"
    /\ \E a \in 1..Len(lists.matched_transfers) :
          \E j, k \in 1..Len(debits_sorted) :
              /\ debits_sorted[j] = lists.matched_transfers[a].debit_idx
              /\ j < k
              /\ Pairable(Txn(lists.matched_transfers[a].credit_idx), Txn(debits_sorted[k]))
    /\ \E k \in 1..Len(credits_sorted) : credits_sorted[k] \notin used_indices

\* the transaction has a category
Categorized(t) == t.category # NoCategory

\* the sorted index of the transaction is in the used set
MarkedUsed(t) == "sorted_idx" \in DOMAIN t /\ t.sorted_idx \in used_indices

\* the matched pass has not finished
MatchedPassUnfinished ==
    pc \in {"patterns", "combine", "sort", "missing_banks", "separate", "matched"}

\* a transaction has a category exactly when it is marked used, and only the
\* category of the matched pass is given while that pass has not finished
CategorizedIffUsed ==
    /\ \A t \in Transactions : Categorized(t) <=> MarkedUsed(t)
    /\ MatchedPassUnfinished =>
           \A t \in Transactions : Categorized(t) => t.category = "INTER_ACCOUNT_TRANSFER"

\* a step leaves the category and exclude_from_turnover of a categorized
\* transaction as they are
CategoryKept ==
    \A k \in 1..Len(all_transactions) :
        Categorized(all_transactions[k]) =>
            /\ k <= Len(all_transactions')
            /\ all_transactions'[k].category = all_transactions[k].category
            /\ all_transactions'[k].exclude_from_turnover
                   = all_transactions[k].exclude_from_turnover

\* C13: at every point of a run a transaction has a category if and only if its
\* sorted index is in used_indices; a category, once assigned, and the
\* exclude_from_turnover set with it are changed by no later step; and before the
\* matched pass has finished no category but that of the matched pass is assigned.
C13_CategorizedOnceAndMarkedUsed == [](CategorizedIffUsed) /\ [][CategoryKept]_vars

\* C13 witness: a debit loop is running, the matched pass has categorized and
\* marked a pair, and a debit is still without category and unmarked
C13_Witness ==
    /\ pc \in {"rp_debit", "unverified_debit", "statutory", "salary"}
    /\ \E t \in Transactions : t.category = "INTER_ACCOUNT_TRANSFER" /\ MarkedUsed(t)
    /\ \E t \in Transactions : t.debit > 0 /\ ~Categorized(t) /\ ~MarkedUsed(t)

(***************************************************************************)
(* SpecStatutory: one account over the months of 2024 with an EPF debit in *)
(* each of the first six, a second one in January, an EPF debit to a       *)
(* related party, an EPF credit and a SOCSO debit in later months.         *)
(***************************************************************************)
MaxPayments == 8

StatutoryLedger ==
    << Row("ACC_1", Debit("2024-01-15", "KWSP", 500)),
       Row("ACC_1", Debit("2024-02-15", "KWSP", 500)),
       Row("ACC_1", Debit("2024-03-15", "KWSP", 500)),
       Row("ACC_1", Debit("2024-04-15", "KWSP", 500)),
       Row("ACC_1", Debit("2024-05-15", "EPF EMPLOYER", 500)),
       Row("ACC_1", Debit("2024-06-15", "SOCSO EPF", 500)),
       Row("ACC_1", Debit("2024-01-20", "KWSP", 40)),
       Row("ACC_1", Credit("2024-07-15", "EPF REFUND", 90)),
       Row("ACC_1", Debit("2024-08-15", "EPF ALI BABA", 500)),
       Row("ACC_1", Debit("2024-09-15", "SOCSO", 70)) >>

StatutoryInputs ==
    {[company_name |-> "MY CO SDN BHD",
      company_keywords |-> CompanyKeywords,
      related_parties |-> RelatedParties,
      account_info |-> <<MetaEntry("ACC_1")>>,
      uploaded_data |->
          [acc_id \in {"ACC_1"} |->
              [transactions |-> FileRows(StatutoryLedger, chosen, acc_id),
               monthly_summary |-> <<>>]]] :
     chosen \in SubsetsUpTo(Range(StatutoryLedger), MaxPayments)}

InitStatutory == \E in \in StatutoryInputs : Start(in)

SpecStatutory == InitStatutory /\ [][Next]_vars

\* the calendar month (YYYY-MM) of a transaction
CalendarMonth(t) == SubSeq(t.date, 1, 7)

\* expected: the distinct calendar months among the retained transactions
ExpectedMonths == Cardinality({CalendarMonth(t) : t \in Transactions})

\* count: the distinct months with a debit categorized STATUTORY_PAYMENT of the type
CoveredMonths(type) ==
    Cardinality({CalendarMonth(t) :
                    t \in {u \in Transactions :
                              /\ u.debit > 0
                              /\ u.category = "STATUTORY_PAYMENT"
                              /\ check_statutory(u.description) = type}})

\* count >= max(4, expected - 2)
CoverageSatisfied(count, expected) ==
    /\ count >= 4
    /\ count >= expected - 2

\* the check of the name in the scored list
CheckNamed(name) == checks[CHOOSE k \in 1..Len(checks) : checks[k].name = name]

\* the checks are scored
Scored == pc \in {"report", "done"}

\* C14: with expected the number of distinct calendar months among the retained
\* transactions and count the number of distinct months with a debit categorized
\* STATUTORY_PAYMENT of type EPF/KWSP, the check 'EPF Payment' is PASS exactly when
\* count >= max(4, expected - 2), and that is when get_recurring_status says FOUND.
C14_StatutoryCoverage ==
    Scored =>
        LET count == CoveredMonths("EPF/KWSP")
            expected == ExpectedMonths
        IN  /\ CheckNamed("EPF Payment").status = "PASS" <=> CoverageSatisfied(count, expected)
            /\ CheckNamed("EPF Payment").status \in {"PASS", "FAIL"}
            /\ get_recurring_status(count, expected) = "FOUND"
                   <=> CoverageSatisfied(count, expected)

\* C14 witness: a returned run over eight months, six of them with an EPF debit
\* categorized STATUTORY_PAYMENT and one with an EPF debit that is not: the check
\* passes with count = expected - 2
C14_Witness ==
    /\ Returned
    /\ ExpectedMonths = 8
    /\ CoveredMonths("EPF/KWSP") = 6
    /\ \E t \in Transactions :
          /\ t.debit > 0
          /\ check_statutory(t.description) = "EPF/KWSP"
          /\ t.category # "STATUTORY_PAYMENT"
    /\ CheckNamed("EPF Payment").status = "PASS"

(***************************************************************************)
(* SpecScore: one account whose balances swing little or much, with EPF    *)
(* debits in four months, credits that are round figures or not, and a     *)
(* credit that names a bank that is not provided.                          *)
(***************************************************************************)
MaxScored == 7

ScoreLedger ==
    << Row("ACC_1", Debit("2024-01-15", "KWSP", 500)),
       Row("ACC_1", Debit("2024-02-15", "KWSP", 500)),
       Row("ACC_1", Debit("2024-03-15", "KWSP", 500)),
       Row("ACC_1", Debit("2024-04-15", "KWSP", 500)),
       Row("ACC_1", Credit("2024-01-10", "SALES INV 7", 20000)),
       Row("ACC_1", Credit("2024-02-10", "SALES INV 8", 30500)),
       Row("ACC_1", Credit("2024-03-10", "MBB SALES INV 9", 700)) >>

\* the monthly summaries of the account: none, a low swing, a high one
ScoreSummaries ==
    { <<>>,
      <<Month("ACC_1", "2024-01", 500, 300).txn>>,
      <<Month("ACC_1", "2024-01", 900, 100).txn>> }

ScoreInputs ==
    {[company_name |-> "MY CO SDN BHD",
      company_keywords |-> CompanyKeywords,
      related_parties |-> RelatedParties,
      account_info |-> <<MetaEntry("ACC_1")>>,
      uploaded_data |->
          [acc_id \in {"ACC_1"} |->
              [transactions |-> FileRows(ScoreLedger, in[1], acc_id),
               monthly_summary |-> in[2]]]] :
     in \in SubsetsUpTo(Range(ScoreLedger), MaxScored) \X ScoreSummaries}

InitScore == \E in \in ScoreInputs : Start(in)

SpecScore == InitScore /\ [][Next]_vars

\* the sum of the points of the checks of ks
PointsOf(ks) == SumSeq([k \in 1..Len(checks) |-> IF k \in ks THEN checks[k].points ELSE 0])

\* a missing-counterparty-bank code was detected
MissingBankDetected == missing_bank_codes # <<>>

\* the score is the sum of the points of the checks, a failed check has no points,
\* and Data Completeness fails exactly when a missing bank code was detected
ScoreAddsUp ==
    /\ score = PointsOf(1..Len(checks))
    /\ \A k \in 1..Len(checks) :
          /\ checks[k].status \in {"PASS", "FAIL"}
          /\ checks[k].status = "FAIL" => checks[k].points = 0
    /\ CheckNamed("Data Completeness").status = "FAIL" <=> MissingBankDetected

\* C15 as the specification states it: the score is the sum of the points of the
\* checks, a failed check contributes 0 and every passed check a positive number of
\* points, and Data Completeness, failing exactly when a missing bank code was
\* detected, changes the score by its outcome.
C15_EveryPassedCheckScores ==
    Scored =>
        /\ ScoreAddsUp
        /\ \A k \in 1..Len(checks) : checks[k].status = "PASS" => checks[k].points > 0

\* the points assigned to a check that passes
AssignedPoints(name) ==
    IF name \in {"Volatility Level", "Round Figure %"} THEN 2
    ELSE IF name = "EPF Payment" THEN 1
    ELSE 0

\* C15, amended: the score is the sum of the points of the checks; a failed check
\* contributes 0 and a passed check its assigned points, 2 for Volatility Level and
\* Round Figure %, 1 for EPF Payment and 0 for Data Completeness; Data Completeness
\* fails exactly when a missing bank code was detected, and the score is the same
\* whether it fails or passes.
C15_ScoreIsSumOfAssignedPoints ==
    Scored =>
        /\ ScoreAddsUp
        /\ \A k \in 1..Len(checks) :
              checks[k].status = "PASS" => checks[k].points = AssignedPoints(checks[k].name)
        /\ {checks[k].name : k \in 1..Len(checks)}
               = {"Volatility Level", "Round Figure %", "EPF Payment", "Data Completeness"}
        /\ score = PointsOf({k \in 1..Len(checks) : checks[k].name # "Data Completeness"})

\* C15 witness: a returned run where a missing bank code was detected and Data
\* Completeness fails, while the three other checks pass and the score is 5
C15_Witness ==
    /\ Returned
    /\ MissingBankDetected
    /\ CheckNamed("Data Completeness").status = "FAIL"
    /\ \A k \in 1..Len(checks) :
          checks[k].name # "Data Completeness" => checks[k].status = "PASS"
    /\ score = 5

(***************************************************************************)
(* SpecBanks: one account with descriptions that name banks of BANK_CODES  *)
(* by a code of one word or of two words, a provided bank, or no bank of   *)
(* the table, with and without an inter-account marker.                    *)
(***************************************************************************)
MaxBankRows == 3

BankLedger ==
    << Row("ACC_1", Debit("2024-02-01", "BANK ISLAM PAYMENT", 100)),
       Row("ACC_1", Credit("2024-02-01", "OWN ACC HONG LEONG BANK", 200)),
       Row("ACC_1", Credit("2024-02-01", "PUBLIC BANK ITB TRF", 300)),
       Row("ACC_1", Debit("2024-02-01", "ITB TRF PUBLIC MUTUAL", 500)),
       Row("ACC_1", Credit("2024-02-01", "MBB ITB TRF", 400)),
       Row("ACC_1", Credit("2024-02-01", "CIMB ITB TRF", 600)),
       Row("ACC_1", Debit("2024-02-01", "RHB PAYMENT", 50)) >>

BankInputs ==
    {[company_name |-> "MY CO SDN BHD",
      company_keywords |-> CompanyKeywords,
      related_parties |-> RelatedParties,
      account_info |-> <<MetaEntry("ACC_1")>>,
      uploaded_data |->
          [acc_id \in {"ACC_1"} |->
              [transactions |-> FileRows(BankLedger, chosen, acc_id),
               monthly_summary |-> <<>>]]] :
     chosen \in SubsetsUpTo(Range(BankLedger), MaxBankRows)}

InitBanks == \E in \in BankInputs : Start(in)

SpecBanks == InitBanks /\ [][Next]_vars

\* the keys of the static bank-code table that are not in the provided-bank set
KnownMissingCodes ==
    {BANK_CODES[k][1] : k \in 1..Len(BANK_CODES)} \ PROVIDED_BANK_CODES

\* the code occurs in the description of the transaction
Names(t, code) == Contains(code, Upper(t.description))

\* C16: every element of the missing-bank-code set is a key of the bank-code table
\* that is not a provided bank and that occurs in the description of a
\* transaction, and a transaction is INTER_ACCOUNT_TRANSFER_UNVERIFIED only if its
\* description contains a key of the table that is not a provided bank.
C16_MissingCodesAreKnownBanks ==
    /\ \A code \in Range(missing_bank_codes) :
          /\ code \in KnownMissingCodes
          /\ \E t \in Transactions : Names(t, code)
    /\ \A t \in Transactions :
          t.category = "INTER_ACCOUNT_TRANSFER_UNVERIFIED" =>
              \E code \in KnownMissingCodes : Names(t, code)
=============================================================================
